---------------------------- MODULE Spec2Model ----------------------------
(***************************************************************************)
(* A model of jedi's class model (jedi/inference/value/klass.py) and of    *)
(* the standard-library patches (jedi/plugins/stdlib.py).                  *)
(*                                                                         *)
(* The program is a single-threaded, recursive evaluator.  Its state is    *)
(* the class table of the analysed program (`classes`), the last call     *)
(* made into the component under study (`call`) and what that call        *)
(* returned (`result`).  One action is one call, translated whole.        *)
(***************************************************************************)
EXTENDS Integers, Sequences, FiniteSets, TLC

VARIABLES
    classes,    \* class -> its base-argument list (tree_node.get_super_arglist())
    call,       \* the last call: a record with field op and the call's inputs
    result      \* what the last call returned

vars == <<classes, call, result>>

(***************************************************************************)
(* Generic sequence helpers.                                               *)
(***************************************************************************)
Range(s) == {s[i] : i \in 1..Len(s)}

NoDuplicates(s) == \A i, j \in 1..Len(s) : i # j => s[i] # s[j]

RECURSIVE Flatten(_)
Flatten(ss) ==
    IF ss = <<>> THEN <<>> ELSE Head(ss) \o Flatten(Tail(ss))

SeqsUpTo(S, n) == UNION {[1..k -> S] : k \in 0..n}

(***************************************************************************)
(* Bounds of the model.                                                    *)
(***************************************************************************)
\* Total number of inferred base values in the class table of one program.
MaxEdges == 2
\* Python's recursion limit (sys.getrecursionlimit()), scaled down; it only
\* has to exceed the number of classes.
RecursionLimit == 6

(***************************************************************************)
(* The analysed program: classes and the values base expressions infer to. *)
(***************************************************************************)
\* `object` of the builtins module.
Object == "object"
\* Classes of a user module; "O" is declared as `class object` there.
UserClasses == {"A", "B", "O"}
\* Classes of the standard library besides object: builtins' type and enum's
\* EnumMeta; neither has a base list in the class table.
Type == "type"
EnumMeta == "EnumMeta"
\* A class of an extension module, known as a CompiledObject only.
ExtClass == "Ext"
AllClasses == UserClasses \cup {Object, Type, EnumMeta, ExtClass}
\* A value that is not a class and has no py__mro__ (`class Y(1): pass`).
NonClass == "lit"
Values == UserClasses \cup {Object, NonClass}

builtins_module == "builtins"
UserModule == "user"

py__name__(c) == IF c \in {Object, "O"} THEN "object" ELSE c

enum_module == "enum"

parent_context(c) ==
    IF c \in {Object, Type} THEN builtins_module
    ELSE IF c = EnumMeta THEN enum_module
    ELSE IF c = ExtClass THEN "ext"
    ELSE UserModule

\* An argument of the base list: key is NoKey for a positional argument; vals
\* is what lazy_value.infer() yields, in iteration order.
NoKey == "None"
Arg(k, vs) == [key |-> k, vals |-> vs]

RECURSIVE ArgListsOfWeight(_)
ArgListsOfWeight(w) ==
    IF w = 0 THEN {<<>>}
    ELSE UNION {
        {<<Arg(NoKey, vs)>> \o rest :
            vs \in [1..k -> Values], rest \in ArgListsOfWeight(w - k)}
        : k \in 1..w}

\* Every class table whose base lists hold at most MaxEdges inferred values.
Tables ==
    UNION {
        {[c \in UserClasses |-> IF c = "A" THEN a ELSE IF c = "B" THEN b ELSE o] :
            a \in ArgListsOfWeight(w[1]),
            b \in ArgListsOfWeight(w[2]),
            o \in ArgListsOfWeight(w[3])}
        : w \in {x \in [1..3 -> 0..MaxEdges] : x[1] + x[2] + x[3] <= MaxEdges}}

\* tree_node.get_super_arglist(): None (here <<>>) without a base list.
get_super_arglist(cls, c) == IF c \in DOMAIN cls THEN cls[c] ELSE <<>>

(***************************************************************************)
(* ClassValue.py__bases__                                                  *)
(***************************************************************************)
\* The implicit base: LazyKnownValues(builtins_module.py__getattribute__('object')).
LazyObject == <<Object>>

py__bases__NameOnly(cls, c) ==
    LET args == get_super_arglist(cls, c)
        lst == SelectSeq(args, LAMBDA a : a.key = NoKey)
    IN  IF lst # <<>> THEN [i \in 1..Len(lst) |-> lst[i].vals]
        ELSE IF py__name__(c) = "object" THEN <<>>
        ELSE <<LazyObject>>

py__bases__(cls, c) ==
    LET args == get_super_arglist(cls, c)
        lst == SelectSeq(args, LAMBDA a : a.key = NoKey)
    IN  IF lst # <<>> THEN [i \in 1..Len(lst) |-> lst[i].vals]
        ELSE IF py__name__(c) = "object" /\ parent_context(c) = builtins_module
             THEN <<>>
        ELSE <<LazyObject>>

(***************************************************************************)
(* The memoizing decorators of jedi.inference.cache, per inference session *)
(* (one top-level query): a finished call is answered from the memo; a     *)
(* call re-entered while it is still being computed yields its default,    *)
(* nothing, instead of recursing.                                          *)
(***************************************************************************)
EmptyMemo == [c \in AllClasses |-> <<>>]

\* An MRO starts with its class, so <<>> marks "not computed".
IsMemoized(m, c) == m[c] # <<>>

IsReentered(active, c) == c \in active

RecursionDefault == <<>>

Yield(lst, m) == [lst |-> lst, memo |-> m, err |-> FALSE]

\* RecursionError: the interpreter's call stack is exhausted.
RecursionError == [lst |-> <<>>, memo |-> EmptyMemo, err |-> TRUE]

(***************************************************************************)
(* ClassMixin.py__mro__                                                    *)
(***************************************************************************)
HasMro(v) == v \in AllClasses

\* for cls_new in mro_method(): if cls_new not in mro: mro.append(cls_new)
RECURSIVE AppendNew(_, _)
AppendAll(mro, new) == mro \o new

AppendNew(mro, new) ==
    IF new = <<>> THEN mro
    ELSE IF \E i \in 1..Len(mro) : mro[i] = Head(new)
         THEN AppendNew(mro, Tail(new))
    ELSE AppendNew(Append(mro, Head(new)), Tail(new))

RECURSIVE py__mro__(_, _, _, _, _)
RECURSIVE MroOfBases(_, _, _, _, _, _)

MroOfBasesStopping(cls, vs, mro, active, m, depth) ==
    IF vs = <<>> THEN Yield(mro, m)
    ELSE IF ~HasMro(Head(vs)) THEN Yield(mro, m)
    ELSE LET r == py__mro__(cls, Head(vs), active, m, depth + 1)
         IN  IF r.err THEN r
             ELSE MroOfBases(cls, Tail(vs), AppendNew(mro, r.lst), active,
                             r.memo, depth)

\* The two loops of py__mro__ over the values of every base, in order.
MroOfBases(cls, vs, mro, active, m, depth) ==
    IF vs = <<>> THEN Yield(mro, m)
    ELSE IF ~HasMro(Head(vs))
         THEN MroOfBases(cls, Tail(vs), mro, active, m, depth)
    ELSE LET r == py__mro__(cls, Head(vs), active, m, depth + 1)
         IN  IF r.err THEN r
             ELSE MroOfBases(cls, Tail(vs), AppendNew(mro, r.lst), active,
                             r.memo, depth)

\* The first inferred value of every base.
FirstValues(bases) ==
    LET inferred == SelectSeq(bases, LAMBDA vs : vs # <<>>)
    IN  [i \in 1..Len(inferred) |-> inferred[i][1]]

MroGeneratorFirstValue(cls, c, active, m, depth) ==
    MroOfBases(cls, FirstValues(py__bases__(cls, c)), <<c>>, active, m, depth)

MroGenerator(cls, c, active, m, depth) ==
    MroOfBases(cls, Flatten(py__bases__(cls, c)), <<c>>, active, m, depth)

py__mro__undecorated(cls, c, active, m, depth) ==
    IF depth > RecursionLimit THEN RecursionError
    ELSE MroGenerator(cls, c, active, m, depth)

py__mro__(cls, c, active, m, depth) ==
    IF depth > RecursionLimit THEN RecursionError
    ELSE IF IsMemoized(m, c) THEN Yield(m[c], m)
    ELSE IF IsReentered(active, c) THEN Yield(RecursionDefault, m)
    ELSE LET r == MroGenerator(cls, c, active \cup {c}, m, depth)
         IN  IF r.err THEN r
             ELSE Yield(r.lst, [r.memo EXCEPT ![c] = r.lst])

\* list(cls.py__mro__()) in a fresh inference session.
Mro(cls, c) == py__mro__(cls, c, {}, EmptyMemo, 1)

(***************************************************************************)
(* Calls into the class model.                                             *)
(***************************************************************************)
NoCall == [op |-> "none"]
NoResult == [kind |-> "none"]

InitMro ==
    /\ classes \in Tables
    /\ call = NoCall
    /\ result = NoResult

\* An inference session is one top-level query: it starts with empty caches
\* and ends when its result has been handed back.
Idle == call = NoCall

EndSession ==
    /\ ~Idle
    /\ call' = NoCall
    /\ result' = NoResult
    /\ UNCHANGED classes

\* debug.warning('Super class of %s is not a class: %s', self, cls): the
\* values the loop of c's own py__mro__ warns about, in order.
Warnings(cls, c) ==
    SelectSeq(Flatten(py__bases__(cls, c)), LAMBDA v : ~HasMro(v))

CallMro(c) ==
    /\ Idle
    /\ call' = [op |-> "py__mro__", cls |-> c]
    /\ result' = LET r == Mro(classes, c)
                 IN  IF r.err THEN [kind |-> "RecursionError"]
                     ELSE [kind |-> "mro", lst |-> r.lst,
                           warnings |-> Warnings(classes, c)]
    /\ UNCHANGED classes

CallBases(c) ==
    /\ Idle
    /\ call' = [op |-> "py__bases__", cls |-> c]
    /\ result' = [kind |-> "bases", lst |-> py__bases__(classes, c)]
    /\ UNCHANGED classes

NextMro ==
    \/ Idle /\ \E c \in AllClasses : CallMro(c)
    \/ Idle /\ \E c \in AllClasses : CallBases(c)
    \/ EndSession

SpecMro == InitMro /\ [][NextMro]_vars

(***************************************************************************)
(* builtins_isinstance                                                     *)
(***************************************************************************)
\* Candidate objects: an instance of a class, or an object whose class has
\* no py__bases__ attribute.
Instance(c) == [kind |-> "instance", cls |-> c]
Opaque == [kind |-> "opaque"]
Instances == {Instance("A"), Instance("B"), Opaque}

\* Type arguments: a class, a builtin tuple of lazy values, anything else.
ClassArg(c) == [kind |-> "class", cls |-> c]
TupleArg(items) == [kind |-> "tuple", items |-> items]
OtherArg == [kind |-> "other"]

is_class(t) == t.kind = "class"

IsBuiltinTuple(t) == t.kind = "tuple"

HasPyBases(o) == o.kind = "instance"

\* classes = ValueSet.from_sets(lazy_value.infer() for lazy_value in iterate())
TupleClasses(t) == Range(Flatten(t.items))

\* The verdicts one object adds to bool_results.
TypeVerdictsAll(mro, types) ==
    {(t.cls \in Range(mro)) : t \in {x \in types : is_class(x)}}
    \cup {(\A c \in TupleClasses(t) : c \in Range(mro)) :
             t \in {x \in types : ~is_class(x) /\ IsBuiltinTuple(x)}}

TypeVerdicts(mro, types) ==
    {(t.cls \in Range(mro)) : t \in {x \in types : is_class(x)}}
    \cup {(\E c \in TupleClasses(t) : c \in Range(mro)) :
             t \in {x \in types : ~is_class(x) /\ IsBuiltinTuple(x)}}

\* for o in objects: ...; objects in the iteration order of the ValueSet.
RECURSIVE IsinstanceLoop(_, _, _, _)
IsinstanceLoop(cls, objects, types, bool_results) ==
    IF objects = <<>> THEN bool_results
    ELSE IF ~HasPyBases(Head(objects)) THEN {TRUE, FALSE}
    ELSE IsinstanceLoop(cls, Tail(objects), types,
             bool_results
                 \cup TypeVerdicts(Mro(cls, Head(objects).cls).lst, types))

builtins_isinstance(cls, objects, types) ==
    IsinstanceLoop(cls, objects, types, {})

IsinstanceObjects ==
    {s \in SeqsUpTo(Instances, 2) : Len(s) >= 1 /\ NoDuplicates(s)}

IsinstanceTupleItems == {<<"A">>, <<"B">>}

IsinstanceTypes ==
    {{ClassArg(c)} : c \in {"A", "B", Object}}
    \cup {{ClassArg(c), ClassArg(d)} : c, d \in {"A", "B", Object}}
    \cup {{OtherArg}}
    \cup {{TupleArg(items)} : items \in SeqsUpTo(IsinstanceTupleItems, 2)}

CallIsinstance(objects, types) ==
    /\ Idle
    /\ call' = [op |-> "isinstance", objects |-> objects, types |-> types]
    /\ result' = [kind |-> "bools",
                  set |-> builtins_isinstance(classes, objects, types)]
    /\ UNCHANGED classes

NextIsinstance ==
    \/ Idle /\ \E objects \in IsinstanceObjects, types \in IsinstanceTypes :
                   CallIsinstance(objects, types)
    \/ EndSession

SpecIsinstance == InitMro /\ [][NextIsinstance]_vars

(***************************************************************************)
(* ClassFilter: the names of a class body visible from an origin scope.    *)
(***************************************************************************)
\* Longest identifier, in characters.
MaxNameLen == 5
\* Scopes of the parsed module; scope 1 is the module itself.
NumScopes == 4

NameChars == {"_", "a"}

Identifiers == UNION {[1..k -> NameChars] : k \in 1..MaxNameLen}

startswith(s, prefix) ==
    /\ Len(s) >= Len(prefix)
    /\ SubSeq(s, 1, Len(prefix)) = prefix

endswith(s, suffix) ==
    /\ Len(s) >= Len(suffix)
    /\ SubSeq(s, Len(s) - Len(suffix) + 1, Len(s)) = suffix

\* `needle in text` for two pieces of source text.
Contains(text, needle) ==
    \E i \in 1..(Len(text) - Len(needle) + 1) :
        SubSeq(text, i, i + Len(needle) - 1) = needle

Dunder == <<"_", "_">>

\* The text 'ClassVar', as the two pieces a substring search has to find
\* next to each other.
ClassVarMarker == <<"Class", "Var">>

\* annassign.children[1].get_code()
AnnotationCodes ==
    { <<"int">>,
      <<"Class", "Var">>,
      <<"typing", ".", "Class", "Var", "[", "int", "]">>,
      <<"Class", "[", "Var", "]">> }

\* name.get_definition(): None, a statement that is no expr_stmt, an
\* expr_stmt that assigns without an annotation, an annotated assignment.
NoDefinition == [type |-> "None"]
FuncDef == [type |-> "funcdef"]
Assignment == [type |-> "expr_stmt", child1 |-> "operator"]
AnnAssign(code) == [type |-> "expr_stmt", child1 |-> "annassign", code |-> code]

Definitions ==
    {NoDefinition, FuncDef, Assignment} \cup {AnnAssign(c) : c \in AnnotationCodes}

\* A name of the tree; direct says that it is bound directly in the body
\* of the filter's class.
TreeName(v, d, direct) == [value |-> v, definition |-> d, direct |-> direct]

\* A scope's parent scope; 0 stands for None.  Parents precede children.
NoScope == 0
ParentMaps ==
    {p \in [1..NumScopes -> 0..(NumScopes - 1)] :
        /\ p[1] = NoScope
        /\ \A i \in 2..NumScopes : p[i] >= 1 /\ p[i] < i}

\* The ClassValue itself, where it is handed in as the origin.
SelfValue == -1

\* The fields of a ClassFilter that _filter reads.
Filter(parents, parser_scope, origin_scope) ==
    [parents |-> parents, parser_scope |-> parser_scope,
     origin_scope |-> origin_scope]

Filters ==
    {Filter(p, s, o) : p \in ParentMaps, s \in 2..NumScopes,
                       o \in (0..NumScopes) \cup {SelfValue}}

get_cached_parent_scope(f, node) == f.parents[node]

RECURSIVE OriginScopeWalk(_, _)
OriginScopeWalk(f, node) ==
    IF node = NoScope THEN FALSE
    ELSE IF node = f.parser_scope \/ node = SelfValue THEN TRUE
    ELSE OriginScopeWalk(f, get_cached_parent_scope(f, node))

_equals_origin_scopeNoWalk(f) ==
    f.origin_scope # NoScope
        /\ (f.origin_scope = f.parser_scope \/ f.origin_scope = SelfValue)

_equals_origin_scope(f) == OriginScopeWalk(f, f.origin_scope)

_access_possibleAlwaysClassVar(f, name, from_instance) ==
    LET expr_stmt == name.definition
    IN  IF /\ expr_stmt.type = "expr_stmt"
           /\ expr_stmt.child1 = "annassign"
           /\ ~Contains(expr_stmt.code, ClassVarMarker)
        THEN FALSE
        ELSE \/ ~startswith(name.value, Dunder)
             \/ endswith(name.value, Dunder)
             \/ _equals_origin_scope(f)

_access_possible(f, name, from_instance) ==
    LET expr_stmt == name.definition
    IN  IF /\ ~from_instance
           /\ expr_stmt.type = "expr_stmt"
           /\ expr_stmt.child1 = "annassign"
           /\ ~Contains(expr_stmt.code, ClassVarMarker)
        THEN FALSE
        ELSE \/ ~startswith(name.value, Dunder)
             \/ endswith(name.value, Dunder)
             \/ _equals_origin_scope(f)

\* ParserTreeFilter._filter: the names bound directly in the class body.
ParserTreeFilter_filter(names) == SelectSeq(names, LAMBDA n : n.direct)

_filter(f, names, from_instance) ==
    SelectSeq(ParserTreeFilter_filter(names),
              LAMBDA n : _access_possible(f, n, from_instance))

\* The class bodies _filter is applied to.
Secret == <<"_", "_", "a">>
SecretDunder == <<"_", "_", "a", "_", "_">>
Plain == <<"a">>

BodyNames ==
    { TreeName(Secret, Assignment, TRUE),
      TreeName(SecretDunder, Assignment, TRUE),
      TreeName(Plain, AnnAssign(<<"int">>), TRUE),
      TreeName(Plain, AnnAssign(<<"Class", "Var">>), TRUE),
      TreeName(Secret, AnnAssign(<<"Class", "Var">>), TRUE),
      TreeName(Plain, Assignment, FALSE) }

ClassBodies == SeqsUpTo(BodyNames, 2)

NoClasses == [c \in UserClasses |-> <<>>]

\* The components below keep no state of their own and read no class table.
InitNoClasses ==
    /\ classes = NoClasses
    /\ call = NoCall
    /\ result = NoResult

CallAccessPossible(f, name, from_instance) ==
    /\ Idle
    /\ call' = [op |-> "_access_possible", filter |-> f, names |-> <<name>>,
                from_instance |-> from_instance]
    /\ result' = [kind |-> "names",
                  lst |-> IF _access_possible(f, name, from_instance)
                          THEN <<name>> ELSE <<>>]
    /\ UNCHANGED classes

CallFilter(f, names, from_instance) ==
    /\ Idle
    /\ call' = [op |-> "_filter", filter |-> f, names |-> names,
                from_instance |-> from_instance]
    /\ result' = [kind |-> "names", lst |-> _filter(f, names, from_instance)]
    /\ UNCHANGED classes

NextFilter ==
    \/ Idle /\ \E f \in Filters, v \in Identifiers, d \in Definitions,
                   from_instance \in BOOLEAN :
                   CallAccessPossible(f, TreeName(v, d, TRUE), from_instance)
    \/ Idle /\ \E f \in Filters, names \in ClassBodies,
                   from_instance \in BOOLEAN :
                   CallFilter(f, names, from_instance)
    \/ EndSession

SpecFilter == InitNoClasses /\ [][NextFilter]_vars

(***************************************************************************)
(* functools.partial: PartialObject and PartialSignature                   *)
(***************************************************************************)
\* Arguments bound by partial() after the function itself.
MaxBound == 3

ParamNames == {"a", "b", "c"}

\* Parameter lists of the wrapped callables: distinct names, in order.
ParamLists == {ps \in SeqsUpTo(ParamNames, 3) : NoDuplicates(ps)}

\* What the first argument infers to: the signatures of its functions.
FunctionSets ==
    SeqsUpTo(ParamLists, 1) \cup {<<ps, <<"a", "b", "c">>>> : ps \in ParamLists}

\* One unpacked argument of partial(): (key, lazy_value).
FunctionArg(k, sigs) == [key |-> k, sigs |-> sigs]
BoundArg(k) == [key |-> k, sigs |-> <<>>]

BoundArgs == {BoundArg(k) : k \in {NoKey} \cup ParamNames}

PartialArguments ==
    {<<>>}
    \cup {<<FunctionArg(k, sigs)>> \o rest :
             k \in {NoKey, "func"}, sigs \in FunctionSets,
             rest \in SeqsUpTo(BoundArgs, MaxBound)}

\* next(unpacked_arguments, (None, None)); None is NoFunction here.
NoFunction == [found |-> FALSE]

_get_function(unpacked_arguments) ==
    IF unpacked_arguments = <<>> \/ Head(unpacked_arguments).key # NoKey
    THEN NoFunction
    ELSE [found |-> TRUE, sigs |-> Head(unpacked_arguments).sigs]

\* PartialSignature.get_param_names
get_param_names(wrapped, skipped_arg_count, skipped_arg_set) ==
    LET names == SubSeq(wrapped, skipped_arg_count + 1, Len(wrapped))
    IN  SelectSeq(names, LAMBDA n : n \notin skipped_arg_set)

\* The loop of get_signatures over the rest of the unpacked arguments.
RECURSIVE CountPositional(_)
CountPositional(args) ==
    IF args = <<>> THEN 0
    ELSE (IF Head(args).key = NoKey THEN 1 ELSE 0) + CountPositional(Tail(args))

KeysOf(args) == {args[i].key : i \in {j \in 1..Len(args) : args[j].key # NoKey}}

get_signaturesCountingFunction(arguments) ==
    LET func == _get_function(arguments)
    IN  IF ~func.found THEN <<>>
        ELSE [i \in 1..Len(func.sigs) |->
                 get_param_names(func.sigs[i], CountPositional(arguments),
                                 KeysOf(Tail(arguments)))]

\* PartialObject.get_signatures, each signature as its get_param_names().
get_signatures(arguments) ==
    LET func == _get_function(arguments)
    IN  IF ~func.found THEN <<>>
        ELSE [i \in 1..Len(func.sigs) |->
                 get_param_names(func.sigs[i], CountPositional(Tail(arguments)),
                                 KeysOf(Tail(arguments)))]

CallGetSignatures(arguments) ==
    /\ Idle
    /\ call' = [op |-> "get_signatures", arguments |-> arguments]
    /\ result' = [kind |-> "signatures", lst |-> get_signatures(arguments)]
    /\ UNCHANGED classes

\* The arguments of a call of the partial object: positional or keyword, told
\* apart from the bound ones by what they infer to.
NewArg(k, v) == [key |-> k, sigs |-> <<>>, new |-> v]

CallerArguments ==
    SeqsUpTo({NewArg(NoKey, 1), NewArg(NoKey, 2), NewArg("c", 1)}, 2)

\* func.execute(arguments): the functions and what they are executed with.
Executed(functions, arguments) ==
    [kind |-> "executed", functions |-> functions, arguments |-> arguments]

MergedPartialArguments_unpackKeepingFunction(partial_arguments, call_arguments) ==
    partial_arguments \o call_arguments

\* MergedPartialArguments.unpack: next(unpacked) drops the function.
MergedPartialArguments_unpack(partial_arguments, call_arguments) ==
    Tail(partial_arguments) \o call_arguments

\* PartialObject.py__call__
PartialObject_py__call__(arguments, call_arguments) ==
    LET func == _get_function(arguments)
    IN  IF ~func.found THEN [kind |-> "values", lst |-> <<>>]
        ELSE Executed(func.sigs,
                      MergedPartialArguments_unpack(arguments, call_arguments))

CallPartial(arguments, call_arguments) ==
    /\ Idle
    /\ call' = [op |-> "partial.py__call__", arguments |-> arguments,
                call_arguments |-> call_arguments]
    /\ result' = PartialObject_py__call__(arguments, call_arguments)
    /\ UNCHANGED classes

NextPartial ==
    \/ Idle /\ \E arguments \in PartialArguments : CallGetSignatures(arguments)
    \/ Idle /\ \E arguments \in PartialArguments,
                   call_arguments \in CallerArguments :
                   CallPartial(arguments, call_arguments)
    \/ EndSession

SpecPartial == InitNoClasses /\ [][NextPartial]_vars

(***************************************************************************)
(* Text (a sequence of characters) and the str methods the patches use.    *)
(***************************************************************************)
\* str.replace(old, new): non-overlapping occurrences, left to right.
RECURSIVE Replace(_, _, _)
Replace(s, old, new) ==
    IF Len(s) < Len(old) THEN s
    ELSE IF SubSeq(s, 1, Len(old)) = old
         THEN new \o Replace(SubSeq(s, Len(old) + 1, Len(s)), old, new)
    ELSE <<Head(s)>> \o Replace(Tail(s), old, new)

\* Pieces of s between separator characters, empty pieces included when
\* keep_empty (str.split(sep)) and dropped otherwise (str.split()).
RECURSIVE SplitLoop(_, _, _, _, _)
SplitLoop(s, seps, keep_empty, cur, out) ==
    LET flushed == IF cur # <<>> \/ keep_empty THEN Append(out, cur) ELSE out
    IN  IF s = <<>> THEN flushed
        ELSE IF Head(s) \in seps
             THEN SplitLoop(Tail(s), seps, keep_empty, <<>>, flushed)
        ELSE SplitLoop(Tail(s), seps, keep_empty, Append(cur, Head(s)), out)

\* str.split(): on runs of whitespace.
split(s) == SplitLoop(s, {" "}, FALSE, <<>>, <<>>)

\* ', '.join(parts) and the like.
RECURSIVE join(_, _)
join(sep, parts) ==
    IF parts = <<>> THEN <<>>
    ELSE IF Len(parts) = 1 THEN parts[1]
    ELSE parts[1] \o sep \o join(sep, Tail(parts))

\* s[1:-1]
Slice1(s) == IF Len(s) <= 2 THEN <<>> ELSE SubSeq(s, 2, Len(s) - 1)

\* repr() of a str without quotes or escapes: 'x' (u'x' for a Python 2
\* unicode).
ReprStr(s, py3) == (IF py3 THEN <<>> ELSE <<"u">>) \o <<"'">> \o s \o <<"'">>

\* repr() of a tuple of str.
ReprTuple(t, py3) ==
    <<"(">> \o join(<<",", " ">>, [i \in 1..Len(t) |-> ReprStr(t[i], py3)])
        \o (IF Len(t) = 1 THEN <<",">> ELSE <<>>) \o <<")">>

(***************************************************************************)
(* Values that carry a literal: get_str_or_none and force_unicode.         *)
(***************************************************************************)
Str(text) == [kind |-> "str", text |-> text]
NonStr == [kind |-> "int"]
SequenceValue(items) == [kind |-> "sequence", items |-> items]

\* None is NoString here.
NoString == [is_none |-> TRUE]
SomeString(text) == [is_none |-> FALSE, text |-> text]

get_str_or_none(v) == IF v.kind = "str" THEN SomeString(v.text) ELSE NoString

NO_VALUES == <<>>

Returned(values) == [kind |-> "values", lst |-> values]
Raised(exc) == [kind |-> "raised", exc |-> exc]

(***************************************************************************)
(* collections_namedtuple                                                  *)
(***************************************************************************)
\* Longest field spec, in characters.
MaxSpecLen == 4

SpecChars == {"x", "y", "u", " ", ","}

FieldSpecs == SeqsUpTo(SpecChars, MaxSpecLen)

Point == <<"P", "o", "i", "n", "t">>
jedi_unknown_namedtuple == <<"j", "e", "d", "i", "_", "u", "n", "k", "n", "o", "w", "n">>

Digits == {"0", "1", "2", "3", "4", "5", "6", "7", "8", "9"}

\* What the first argument infers to.
TypeNameValues ==
    { <<>>, <<Str(Point)>>, <<NonStr>>, <<NonStr, Str(Point)>>,
      <<Str(<<"1", "P">>)>>, <<Str(<<>>)>> }

\* The lazy values a sequence passed as field spec iterates over.
SequenceItems == {<<Str(<<"x">>)>>, <<Str(<<"y">>)>>, <<NonStr>>}

\* The second argument: absent (IndexError in _follow_param), or what it
\* infers to.
NoArgument == [given |-> FALSE]
Argument(values) == [given |-> TRUE, values |-> values]

FieldArguments ==
    {NoArgument, Argument(<<>>), Argument(<<NonStr>>)}
    \cup {Argument(<<Str(spec)>>) : spec \in FieldSpecs}
    \cup {Argument(<<Str(<<"x">>), Str(<<"y">>)>>)}
    \cup {Argument(<<SequenceValue(items)>>) : items \in SeqsUpTo(SequenceItems, 2)}

\* _follow_param(infer_state, arguments, index)
_follow_param(argument) == IF argument.given THEN argument.values ELSE NO_VALUES

\* for c in _follow_param(...): the first value that is a str names the class.
RECURSIVE TypeName(_)
TypeName(values) ==
    IF values = <<>> THEN jedi_unknown_namedtuple
    ELSE IF ~get_str_or_none(Head(values)).is_none
         THEN get_str_or_none(Head(values)).text
    ELSE TypeName(Tail(values))

\* [force_unicode(get_str_or_none(v)) for ... for v in lazy_value.infer()],
\* then without the None entries.
SequenceFields(seq) ==
    LET strings == [i \in 1..Len(Flatten(seq.items)) |->
                        get_str_or_none(Flatten(seq.items)[i])]
        present == SelectSeq(strings, LAMBDA f : ~f.is_none)
    IN  [i \in 1..Len(present) |-> present[i].text]

\* repr(tuple(fields)).replace("u'", "").replace("'", "")[1:-1]
arg_listJoined(fields, py3) == join(<<",", " ">>, fields)

arg_list(fields, py3) ==
    Slice1(Replace(Replace(ReprTuple(fields, py3), <<"u", "'">>, <<>>),
                   <<"'">>, <<>>))

\* _NAMEDTUPLE_FIELD_TEMPLATE for (index, name) in enumerate(fields).
field_defs(fields) ==
    [i \in 1..Len(fields) |-> [name |-> fields[i], index |-> i - 1]]

\* The parameters the parser reads after `_cls` in
\* `def __init__(_cls, {arg_list}):`, a stray comma being skipped.
ParseParams(text) ==
    SplitLoop(Replace(text, <<" ">>, <<>>), {","}, FALSE, <<>>, <<>>)

\* Whether `class {typename}(tuple):` parses to a class definition.
IsIdentifier(name) ==
    /\ name # <<>>
    /\ name[1] \notin Digits
    /\ \A i \in 1..Len(name) : name[i] \notin {" ", ","}

\* The ClassValue of the generated class, by what the template gives it.
GeneratedClass(name, fields, py3) ==
    [typename |-> name,
     field_defs |-> field_defs(fields),
     init_params |-> ParseParams(arg_list(fields, py3))]

\* The code from "Build source code" on.
BuildClass(name, fields, py3) ==
    IF ~IsIdentifier(name) THEN Raised("StopIteration")
    ELSE Returned(<<GeneratedClass(name, fields, py3)>>)

collections_namedtupleRejecting(name_values, fields_argument, py3) ==
    LET name == TypeName(name_values)
        param_values == _follow_param(fields_argument)
    IN  IF param_values = <<>> THEN Returned(NO_VALUES)
        ELSE LET _fields == param_values[1]
                 string == get_str_or_none(_fields)
             IN  IF ~string.is_none
                 THEN BuildClass(name,
                          split(Replace(string.text, <<",">>, <<" ">>)), py3)
                 ELSE IF /\ _fields.kind = "sequence"
                         /\ \A v \in Range(Flatten(_fields.items)) :
                                ~get_str_or_none(v).is_none
                      THEN BuildClass(name, SequenceFields(_fields), py3)
                 ELSE Returned(NO_VALUES)

collections_namedtuple(name_values, fields_argument, py3) ==
    LET name == TypeName(name_values)
        param_values == _follow_param(fields_argument)
    IN  IF param_values = <<>> THEN Returned(NO_VALUES)
        ELSE LET _fields == param_values[1]
                 string == get_str_or_none(_fields)
             IN  IF ~string.is_none
                 THEN BuildClass(name,
                          split(Replace(string.text, <<",">>, <<" ">>)), py3)
                 ELSE IF _fields.kind = "sequence"
                      THEN BuildClass(name, SequenceFields(_fields), py3)
                 ELSE Returned(NO_VALUES)

CallNamedtuple(name_values, fields_argument, py3) ==
    /\ Idle
    /\ call' = [op |-> "namedtuple", name_values |-> name_values,
                fields_argument |-> fields_argument, py3 |-> py3]
    /\ result' = collections_namedtuple(name_values, fields_argument, py3)
    /\ UNCHANGED classes

NextNamedtuple ==
    \/ Idle /\ \E name_values \in TypeNameValues,
                   fields_argument \in FieldArguments, py3 \in BOOLEAN :
                   CallNamedtuple(name_values, fields_argument, py3)
    \/ EndSession

SpecNamedtuple == InitNoClasses /\ [][NextNamedtuple]_vars

(***************************************************************************)
(* _os_path_join                                                           *)
(***************************************************************************)
\* Most path arguments of one call.
MaxArgs == 3

PathTexts == {<<>>, <<"a">>, <<"b">>}

\* What one argument infers to: a set of at most two values.
StringValueSets ==
    {vs \in SUBSET ({Str(t) : t \in PathTexts} \cup {NonStr}) :
        Cardinality(vs) <= 2}

\* argument_clinic('*args, /') hands over one tuple of the lazy arguments.
ArgsSets == {{sequence} : sequence \in SeqsUpTo(StringValueSets, MaxArgs)}

\* os.path.sep
PathSeparators == {<<"/">>, <<"\\">>}

\* What callback() gives: the generic inference of the call.
CallbackResults == {Returned(NO_VALUES), Returned(<<[kind |-> "generic"]>>)}

\* create_simple_object(infer_state, string)
create_simple_object(string) == Str(string)

\* The for loop; Broke when it left by break.
Broke == [broke |-> TRUE]
Completed(string) == [broke |-> FALSE, string |-> string]

RECURSIVE PathJoinLoop(_, _, _, _)
PathJoinLoop(lazy_values, sep, string, is_first) ==
    IF lazy_values = <<>> THEN Completed(string)
    ELSE LET string_values == Head(lazy_values)
         IN  IF Cardinality(string_values) # 1 THEN Broke
             ELSE LET s == get_str_or_none(CHOOSE v \in string_values : TRUE)
                  IN  IF s.is_none THEN Broke
                      ELSE PathJoinLoop(Tail(lazy_values), sep,
                               (IF is_first THEN string ELSE string \o sep)
                                   \o s.text,
                               FALSE)

_os_path_joinSkipping(args_set, sep, callback) ==
    IF Cardinality(args_set) = 1
    THEN LET sequence == CHOOSE q \in args_set : TRUE
             usable == SelectSeq(sequence,
                           LAMBDA vs : /\ Cardinality(vs) = 1
                                       /\ \A v \in vs : v.kind = "str")
         IN  Returned(<<create_simple_object(
                 PathJoinLoop(usable, sep, <<>>, TRUE).string)>>)
    ELSE callback

_os_path_joinNeedingArguments(args_set, sep, callback) ==
    IF Cardinality(args_set) = 1
    THEN LET sequence == CHOOSE q \in args_set : TRUE
             loop == PathJoinLoop(sequence, sep, <<>>, TRUE)
         IN  IF loop.broke \/ sequence = <<>> THEN callback
             ELSE Returned(<<create_simple_object(loop.string)>>)
    ELSE callback

_os_path_join(args_set, sep, callback) ==
    IF Cardinality(args_set) = 1
    THEN LET sequence == CHOOSE q \in args_set : TRUE
             loop == PathJoinLoop(sequence, sep, <<>>, TRUE)
         IN  IF loop.broke THEN callback
             ELSE Returned(<<create_simple_object(loop.string)>>)
    ELSE callback

CallPathJoin(args_set, sep, callback) ==
    /\ Idle
    /\ call' = [op |-> "os.path.join", args_set |-> args_set, sep |-> sep,
                callback |-> callback]
    /\ result' = _os_path_join(args_set, sep, callback)
    /\ UNCHANGED classes

NextPathJoin ==
    \/ Idle /\ \E args_set \in ArgsSets, sep \in PathSeparators,
                   callback \in CallbackResults :
                   CallPathJoin(args_set, sep, callback)
    \/ EndSession

SpecPathJoin == InitNoClasses /\ [][NextPathJoin]_vars

(***************************************************************************)
(* StaticMethodObject and builtins_staticmethod                            *)
(***************************************************************************)
FunctionValues == {[kind |-> "function", name |-> n] : n \in {"f", "g", "h"}}

\* What staticmethod() may be given and may wrap: functions and classes.
Wrappable == FunctionValues \cup {[kind |-> "class", name |-> c] : c \in AllClasses}

StaticMethodObject(f) == [kind |-> "StaticMethodObject", _wrapped_value |-> f]

NoInstance == [kind |-> "None"]

DescriptorInstances == {NoInstance} \cup Instances

BoundTo(instance, f) == [kind |-> "BoundMethod", instance |-> instance, function |-> f]

\* A descriptor that binds, as a plain function does.
py__get__Binding(self, instance, klass) ==
    IF instance = NoInstance THEN {self._wrapped_value}
    ELSE {BoundTo(instance, self._wrapped_value)}

py__get__(self, instance, klass) == {self._wrapped_value}

builtins_staticmethod(functions) == {StaticMethodObject(f) : f \in functions}

CallStaticmethod(functions) ==
    /\ Idle
    /\ call' = [op |-> "staticmethod", functions |-> functions]
    /\ result' = [kind |-> "valueset", set |-> builtins_staticmethod(functions)]
    /\ UNCHANGED classes

CallPyGet(wrapped, instance, klass) ==
    /\ Idle
    /\ call' = [op |-> "py__get__", self |-> StaticMethodObject(wrapped),
                instance |-> instance, klass |-> klass]
    /\ result' = [kind |-> "valueset",
                  set |-> py__get__(StaticMethodObject(wrapped), instance, klass)]
    /\ UNCHANGED classes

NextStaticMethod ==
    \/ Idle /\ \E functions \in SUBSET FunctionValues : CallStaticmethod(functions)
    \/ Idle /\ \E wrapped \in Wrappable, instance \in DescriptorInstances,
                   klass \in AllClasses : CallPyGet(wrapped, instance, klass)
    \/ EndSession

SpecStaticMethod == InitNoClasses /\ [][NextStaticMethod]_vars

(***************************************************************************)
(* execute: the dispatch of a call to its patch                            *)
(***************************************************************************)
\* _implemented, as (module name, object name) pairs.
_implemented ==
    {<<"builtins", n>> : n \in {"getattr", "type", "super", "reversed",
                                "isinstance", "next", "iter", "staticmethod",
                                "classmethod"}}
    \cup {<<"copy", "copy">>, <<"copy", "deepcopy">>,
          <<"json", "load">>, <<"json", "loads">>,
          <<"collections", "namedtuple">>,
          <<"functools", "partial">>, <<"functools", "wraps">>,
          <<"_weakref", "proxy">>, <<"random", "choice">>,
          <<"operator", "itemgetter">>, <<"abc", "abstractmethod">>,
          <<"typing", "_alias">>, <<"dataclasses", "dataclass">>}
    \cup {<<"os.path", n>> : n \in {"dirname", "abspath", "relpath", "join"}}

ImplementedModules == {p[1] : p \in _implemented}

\* Modules a called value may live in: the patched ones and one that is not.
ModuleNames == ImplementedModules \cup {"mymod"}

ObjectNames ==
    {p[2] : p \in _implemented}
    \cup {"__get__", "getter", "setter", "deleter", "foo"}

\* value.parent_context: the builtins module, a module, a class or function
\* context, or None.
ParentContexts ==
    {[kind |-> "builtins_module", name |-> "builtins"]}
    \cup {[kind |-> "module", name |-> n] : n \in ModuleNames}
    \cup {[kind |-> "class", name |-> "C"], [kind |-> "none", name |-> "None"]}

is_module(context) == context.kind \in {"builtins_module", "module"}

\* Not a BoundMethod.
NotBound == [is_bound |-> FALSE]

\* A BoundMethod, by the name of its class_value and the var_args of its
\* instance.
Bound(class_name, var_args) ==
    [is_bound |-> TRUE, class_name |-> class_name, var_args |-> var_args,
     instance |-> [kind |-> "instance", of |-> class_name]]

PropertyArgs == {<<>>, <<[key |-> NoKey, fn |-> "f"]>>, <<[key |-> "fget", fn |-> "f"]>>}

BoundKinds ==
    {NotBound}
    \cup {Bound(c, a) : c \in {"property", "other"}, a \in PropertyArgs}

\* A value whose .name raises AttributeError.
Nameless == [has_name |-> FALSE]

Named(obj_name, parent, bound) ==
    [has_name |-> TRUE, obj_name |-> obj_name, parent_context |-> parent,
     bound |-> bound]

CalledValues ==
    {Nameless}
    \cup {Named(n, p, b) : n \in ObjectNames, p \in ParentContexts, b \in BoundKinds}

\* What the arguments of the call hold for the patches that read them.
CallArguments ==
    [name_values : {<<Str(Point)>>, <<Str(<<"1", "P">>)>>, <<Str(<<>>)>>},
     fields_argument : {NoArgument, Argument(<<Str(<<"x", " ", "y">>)>>)},
     args_set : {{<<{Str(<<"a">>)}, {Str(<<"b">>)}>>}, {<<{NonStr}>>}}]

\* builtins_property: the first argument of property(...) called on the object.
builtins_property(value, arguments) ==
    LET property_args == value.bound.var_args
    IN  IF property_args = <<>> \/ property_args[1].key # NoKey
        THEN Returned(NO_VALUES)
        ELSE Returned(<<[kind |-> "call", function |-> property_args[1].fn]>>)

\* func(value, arguments=arguments, callback=call) for func =
\* _implemented[module_name][obj_name]; a patch not followed further gives
\* a value that names it.
Patch(module_name, obj_name, value, arguments, callback) ==
    IF <<module_name, obj_name>> = <<"collections", "namedtuple">>
    THEN collections_namedtuple(arguments.name_values,
                                arguments.fields_argument, TRUE)
    ELSE IF <<module_name, obj_name>> = <<"os.path", "join">>
         THEN _os_path_join(arguments.args_set, <<"/">>, callback)
    ELSE IF <<module_name, obj_name>> \in
                {<<"json", "load">>, <<"json", "loads">>, <<"typing", "_alias">>}
         THEN Returned(NO_VALUES)
    ELSE Returned(<<[kind |-> "patched", by |-> <<module_name, obj_name>>]>>)

\* module_name in wrapper, for a value the wrapper goes on with.
module_name_of(value) ==
    IF value.parent_context.kind = "builtins_module" THEN "builtins"
    ELSE value.parent_context.name

\* What wrapper(value, arguments) hands the call to: call(), builtins_property,
\* the instance of the property, or func = _implemented[module_name][obj_name].
ToCallback == [to |-> "callback"]
ToProperty == [to |-> "builtins_property"]
ToInstance == [to |-> "instance"]
ToFunc(module_name, obj_name) == [to |-> "func", func |-> <<module_name, obj_name>>]

\* The branches of wrapper without the isinstance(value, BoundMethod) block.
wrapperNoBoundMethod(value) ==
    IF ~value.has_name THEN ToCallback
    ELSE IF ~is_module(value.parent_context) THEN ToCallback
    ELSE IF <<module_name_of(value), value.obj_name>> \in _implemented
         THEN ToFunc(module_name_of(value), value.obj_name)
    ELSE ToCallback

\* The branches of wrapper(value, arguments).
wrapper(value) ==
    IF ~value.has_name THEN ToCallback
    ELSE IF ~is_module(value.parent_context) THEN ToCallback
    ELSE IF value.bound.is_bound
         THEN IF module_name_of(value) = "builtins"
              THEN IF value.obj_name = "__get__"
                   THEN IF value.bound.class_name = "property"
                        THEN ToProperty
                        ELSE ToCallback
                   ELSE IF /\ value.obj_name \in {"deleter", "getter", "setter"}
                           /\ value.bound.class_name = "property"
                        THEN ToInstance
                   ELSE ToCallback
              ELSE ToCallback
    ELSE IF <<module_name_of(value), value.obj_name>> \in _implemented
         THEN ToFunc(module_name_of(value), value.obj_name)
    ELSE ToCallback

\* execute(callback)'s wrapper(value, arguments) with what each branch
\* returns; callback is what call() returns.
execute(value, arguments, callback) ==
    LET target == wrapper(value)
    IN  IF target.to = "callback" THEN callback
        ELSE IF target.to = "builtins_property"
             THEN builtins_property(value, arguments)
        ELSE IF target.to = "instance" THEN Returned(<<value.bound.instance>>)
        ELSE Patch(target.func[1], target.func[2], value, arguments, callback)

\* ran records which of the branches the call took.
CallExecute(value, arguments, callback) ==
    /\ Idle
    /\ call' = [op |-> "execute", value |-> value, arguments |-> arguments,
                callback |-> callback, ran |-> wrapper(value)]
    /\ result' = execute(value, arguments, callback)
    /\ UNCHANGED classes

NextExecute ==
    \/ Idle /\ \E value \in CalledValues, arguments \in CallArguments,
                   callback \in CallbackResults :
                   CallExecute(value, arguments, callback)
    \/ EndSession

SpecExecute == InitNoClasses /\ [][NextExecute]_vars

(***************************************************************************)
(* Classes with keyword arguments in their base lists: py__bases__ and     *)
(* get_metaclasses                                                         *)
(***************************************************************************)
\* Most arguments in the base lists of all classes of a table together.
MaxClassArgs == 3

\* One argument of a base list: positional or metaclass=, with what it infers
\* to.
ArgChoices ==
    {Arg(NoKey, vs) :
        vs \in {<<"A">>, <<"B">>, <<ExtClass>>, <<NonClass>>, <<"B", "O">>}}
    \cup {Arg("metaclass", vs) :
              vs \in {<<"A">>, <<EnumMeta>>, <<NonClass>>, <<NonClass, "A">>}}

\* How many arguments each of the classes A, B and O has.
ArgCounts ==
    {x \in [1..3 -> 0..MaxClassArgs] : x[1] + x[2] + x[3] <= MaxClassArgs}

\* value.is_class() for a value of a base list.
IsClassValue(v) == v \in AllClasses

\* The memo of get_metaclasses in one inference session.
NoMetaclassMemo == [c \in AllClasses |-> [done |-> FALSE, set |-> {}]]

\* [m for key, m in args.unpack() if key == 'metaclass'], inferred and united.
MetaclassArguments(cls, c) ==
    LET m == SelectSeq(get_super_arglist(cls, c), LAMBDA a : a.key = "metaclass")
    IN  Range(Flatten([i \in 1..Len(m) |-> m[i].vals]))

AnyValues(values) == values

\* ValueSet(m for m in metaclasses if m.is_class())
ClassesOnly(values) == {v \in values : IsClassValue(v)}

RECURSIVE get_metaclasses(_, _, _, _)
RECURSIVE MetaclassesOfBases(_, _, _, _)

\* for lazy_base in self.py__bases__(): for value in lazy_base.infer(): the
\* first non-empty get_metaclasses of a class among them.
MetaclassesOfBases(cls, vs, active, m) ==
    IF vs = <<>> THEN [set |-> {}, memo |-> m]
    ELSE IF ~IsClassValue(Head(vs))
         THEN MetaclassesOfBases(cls, Tail(vs), active, m)
    ELSE LET r == get_metaclasses(cls, Head(vs), active, m)
         IN  IF r.set # {} THEN r
             ELSE MetaclassesOfBases(cls, Tail(vs), active, r.memo)

get_metaclasses(cls, c, active, m) ==
    IF m[c].done THEN [set |-> m[c].set, memo |-> m]
    ELSE IF IsReentered(active, c) THEN [set |-> {}, memo |-> m]
    ELSE LET metaclasses == ClassesOnly(MetaclassArguments(cls, c))
             r == IF metaclasses # {} THEN [set |-> metaclasses, memo |-> m]
                  ELSE MetaclassesOfBases(cls, Flatten(py__bases__(cls, c)),
                                          active \cup {c}, m)
         IN  [set |-> r.set,
              memo |-> [r.memo EXCEPT ![c] = [done |-> TRUE, set |-> r.set]]]

\* cls.get_metaclasses() in a fresh inference session.
Metaclasses(cls, c) == get_metaclasses(cls, c, {}, NoMetaclassMemo).set

InitClass ==
    /\ \E n \in ArgCounts :
           \E a \in [1..n[1] -> ArgChoices], b \in [1..n[2] -> ArgChoices],
              o \in [1..n[3] -> ArgChoices] :
               classes = [c \in UserClasses |->
                             IF c = "A" THEN a ELSE IF c = "B" THEN b ELSE o]
    /\ call = NoCall
    /\ result = NoResult

CallMetaclasses(c) ==
    /\ Idle
    /\ call' = [op |-> "get_metaclasses", cls |-> c]
    /\ result' = [kind |-> "valueset", set |-> Metaclasses(classes, c)]
    /\ UNCHANGED classes

NextClass ==
    \/ Idle /\ \E c \in AllClasses : CallBases(c)
    \/ Idle /\ \E c \in AllClasses : CallMetaclasses(c)
    \/ EndSession

SpecClass == InitClass /\ [][NextClass]_vars

(***************************************************************************)
(* ClassMixin.get_filters                                                  *)
(***************************************************************************)
\* isinstance(cls, compiled.CompiledObject)
IsCompiledObject(c) == c = ExtClass

\* The classes that are ClassValues and have ClassMixin's get_filters.
ClassValues == {c \in AllClasses : ~IsCompiledObject(c)}

ClassFilter(value, node_value, is_instance) ==
    [kind |-> "ClassFilter", value |-> value, node_value |-> node_value,
     is_instance |-> is_instance]

\* get_global_filter: ParserTreeFilter(value=self, ...)
GlobalFilter(value) ==
    [kind |-> "ParserTreeFilter", value |-> value, node_value |-> value,
     is_instance |-> FALSE]

\* cls.get_filters(is_instance=is_instance) of a compiled class.
CompiledFilters(c, is_instance) ==
    <<[kind |-> "CompiledObjectFilter", value |-> c, node_value |-> c,
       is_instance |-> is_instance]>>

\* The DictFilter of the members of an enumeration.
EnumDictFilter(c) ==
    [kind |-> "DictFilter", value |-> c, node_value |-> c, is_instance |-> FALSE]

\* instance.get_filters() for the instance type_.py__call__() gives.
TypeInstanceFilters ==
    [i \in 1..4 |-> [kind |-> "InstanceFilter", value |-> Type, node_value |-> i,
                     is_instance |-> TRUE]]

\* The wrapper of stdlib.get_metaclass_filters around ClassValue's, which
\* gives [].
get_metaclass_filters(c, metaclasses) ==
    IF \E metaclass \in metaclasses :
           /\ py__name__(metaclass) = "EnumMeta"
           /\ parent_context(metaclass) = enum_module
    THEN <<EnumDictFilter(c)>>
    ELSE <<>>

\* for cls in self.py__mro__(): the filters of each entry.
RECURSIVE MroFilters(_, _, _)
MroFilters(c, mro, is_instance) ==
    IF mro = <<>> THEN <<>>
    ELSE (IF IsCompiledObject(Head(mro))
          THEN CompiledFilters(Head(mro), is_instance)
          ELSE <<ClassFilter(c, Head(mro), is_instance)>>)
         \o MroFilters(c, Tail(mro), is_instance)

get_filtersNoSkip(cls, c, search_global, is_instance) ==
    LET metaclasses == Metaclasses(cls, c)
    IN  (IF metaclasses # {} THEN get_metaclass_filters(c, metaclasses) ELSE <<>>)
        \o (IF search_global THEN <<GlobalFilter(c)>>
            ELSE MroFilters(c, Mro(cls, c).lst, is_instance))
        \o (IF ~is_instance /\ Type # c
            THEN <<TypeInstanceFilters[1]>>
            ELSE <<>>)

get_filters(cls, c, search_global, is_instance) ==
    LET metaclasses == Metaclasses(cls, c)
    IN  (IF metaclasses # {} THEN get_metaclass_filters(c, metaclasses) ELSE <<>>)
        \o (IF search_global THEN <<GlobalFilter(c)>>
            ELSE MroFilters(c, Mro(cls, c).lst, is_instance))
        \o (IF ~is_instance /\ Type # c
            THEN <<TypeInstanceFilters[3]>>
            ELSE <<>>)

CallGetFilters(c, search_global, is_instance) ==
    /\ Idle
    /\ call' = [op |-> "get_filters", cls |-> c, search_global |-> search_global,
                is_instance |-> is_instance]
    /\ result' = [kind |-> "filters",
                  lst |-> get_filters(classes, c, search_global, is_instance)]
    /\ UNCHANGED classes

NextClassFilters ==
    \/ Idle /\ \E c \in ClassValues, search_global \in BOOLEAN,
                   is_instance \in BOOLEAN :
                   CallGetFilters(c, search_global, is_instance)
    \/ EndSession

SpecClassFilters == InitClass /\ [][NextClassFilters]_vars

(***************************************************************************)
(* SuperInstance: what super() gives inside a method of an instance        *)
(***************************************************************************)
\* self._instance.py__class__().py__bases__() for an instance of class c.
_get_bases(cls, c) == py__bases__(cls, c)

\* lazy.infer().execute_with_values(): the instances of the values that are
\* classes, a value that is no class giving nothing.
execute_with_values(vs) == SelectSeq(vs, LAMBDA v : IsClassValue(v))

\* obj.get_filters() for an instance obj of class k.
InstanceFilters(cls, k) ==
    IF IsCompiledObject(k) THEN CompiledFilters(k, TRUE)
    ELSE get_filters(cls, k, FALSE, TRUE)

RECURSIVE FiltersOfObjects(_, _)
FiltersOfObjects(cls, ks) ==
    IF ks = <<>> THEN <<>>
    ELSE InstanceFilters(cls, Head(ks)) \o FiltersOfObjects(cls, Tail(ks))

SuperInstance_get_filtersFirstBase(cls, c) ==
    FiltersOfObjects(cls, execute_with_values(_get_bases(cls, c)[1]))

\* for b in self._get_bases(): for obj in ...: for f in obj.get_filters()
SuperInstance_get_filters(cls, c) ==
    FiltersOfObjects(cls, execute_with_values(Flatten(_get_bases(cls, c))))

_get_wrapped_value(cls, c) ==
    LET objs == execute_with_values(_get_bases(cls, c)[1])
    IN  IF objs = <<>> THEN Instance(c) ELSE Instance(objs[1])

CallSuperFilters(c) ==
    /\ Idle
    /\ call' = [op |-> "super.get_filters", cls |-> c]
    /\ result' = [kind |-> "filters", lst |-> SuperInstance_get_filters(classes, c)]
    /\ UNCHANGED classes

CallSuperWrapped(c) ==
    /\ Idle
    /\ call' = [op |-> "super._get_wrapped_value", cls |-> c]
    /\ result' = [kind |-> "value", value |-> _get_wrapped_value(classes, c)]
    /\ UNCHANGED classes

NextSuper ==
    \/ Idle /\ \E c \in UserClasses : CallSuperFilters(c)
    \/ Idle /\ \E c \in UserClasses : CallSuperWrapped(c)
    \/ EndSession

SpecSuper == InitClass /\ [][NextSuper]_vars

(***************************************************************************)
(* parser_utils.get_flow_branch_keyword                                    *)
(***************************************************************************)
\* Most clauses of one compound statement.
MaxClauses == 3

_FLOW_KEYWORDS ==
    {"try", "except", "finally", "else", "if", "elif", "with", "for", "while"}

\* A compound statement as the keywords of its clauses: if/elif/else,
\* while/else, for/else, with, try/except/else/finally.
IsFlowStatement(kws) ==
    /\ kws # <<>>
    /\ \A i \in 2..Len(kws) : kws[i] \notin {"if", "while", "for", "with", "try"}
    /\ \A i \in 1..(Len(kws) - 1) : kws[i] # "finally"
    /\ \A i \in 1..(Len(kws) - 1) : kws[i] = "else" => kws[i + 1] = "finally"
    /\ \/ /\ kws[1] = "if"
          /\ \A i \in 2..Len(kws) : kws[i] \in {"elif", "else"}
       \/ /\ kws[1] \in {"while", "for"}
          /\ \A i \in 2..Len(kws) : kws[i] = "else"
       \/ kws = <<"with">>
       \/ /\ kws[1] = "try"
          /\ Len(kws) >= 2
          /\ \A i \in 2..Len(kws) : kws[i] \in {"except", "else", "finally"}
          /\ \A i \in 2..Len(kws) : kws[i] = "else" => kws[i - 1] = "except"

FlowStatements ==
    {kws \in SeqsUpTo(_FLOW_KEYWORDS, MaxClauses) : IsFlowStatement(kws)}

\* A child of the flow node by its first leaf and the positions it spans.
Child(first_leaf, width) == [first_leaf |-> first_leaf, width |-> width]

\* The children one clause adds to flow_node.children: the keyword (for
\* except, the except_clause), what is tested or bound, the colon, the suite.
ClauseChildren(kw) ==
    (IF kw = "except" THEN <<Child(kw, 2)>> ELSE <<Child(kw, 1)>>)
    \o (IF kw \in {"if", "elif", "while", "with"} THEN <<Child("name", 1)>>
        ELSE IF kw = "for"
             THEN <<Child("name", 1), Child("in", 1), Child("name", 1)>>
        ELSE <<>>)
    \o <<Child(":", 1), Child("newline", 2)>>

\* flow_node.children with start_pos and end_pos, the first at position first.
RECURSIVE Positioned(_, _)
Positioned(children, first) ==
    IF children = <<>> THEN <<>>
    ELSE <<[first_leaf |-> Head(children).first_leaf,
            start_pos |-> first,
            end_pos |-> first + Head(children).width - 1]>>
         \o Positioned(Tail(children), first + Head(children).width)

FlowStart == 1

FlowNode(kws) ==
    Positioned(Flatten([i \in 1..Len(kws) |-> ClauseChildren(kws[i])]), FlowStart)

FlowEnd(flow_node) == flow_node[Len(flow_node)].end_pos

NoKeyword == [kind |-> "None"]
Keyword(kw) == [kind |-> "keyword", value |-> kw]
Zero == [kind |-> "int", value |-> 0]

\* for i, child in enumerate(flow_node.children), and what follows the loop.
RECURSIVE FlowLoop(_, _, _)
FlowLoop(children, start_pos, keyword) ==
    IF children = <<>> THEN Zero
    ELSE IF start_pos < Head(children).start_pos THEN keyword
    ELSE FlowLoop(Tail(children), start_pos,
             IF Head(children).first_leaf \in _FLOW_KEYWORDS
             THEN Keyword(Head(children).first_leaf) ELSE keyword)

get_flow_branch_keyword(flow_node, start_pos) ==
    IF ~(FlowStart < start_pos /\ start_pos <= FlowEnd(flow_node))
    THEN Raised("ValueError")
    ELSE FlowLoop(flow_node, start_pos, NoKeyword)

CallFlowBranchKeyword(kws, start_pos) ==
    /\ Idle
    /\ call' = [op |-> "get_flow_branch_keyword", kws |-> kws,
                flow_node |-> FlowNode(kws), start_pos |-> start_pos]
    /\ result' = get_flow_branch_keyword(FlowNode(kws), start_pos)
    /\ UNCHANGED classes

NextFlow ==
    \/ Idle /\ \E kws \in FlowStatements :
                   \E start_pos \in 0..(FlowEnd(FlowNode(kws)) + 1) :
                       CallFlowBranchKeyword(kws, start_pos)
    \/ EndSession

SpecFlow == InitNoClasses /\ [][NextFlow]_vars

(***************************************************************************)
(* The members of an enumeration: stdlib.get_metaclass_filters and         *)
(* EnumInstance                                                            *)
(***************************************************************************)
Method == <<"a", "a">>

\* The names a class body may bind: the ones above and a method.
EnumBodies == SeqsUpTo(BodyNames \cup {TreeName(Method, FuncDef, TRUE)}, 2)

MetaclassSets == SUBSET {"A", "B", EnumMeta}

\* ParserTreeFilter(value=cls).values(): the names bound directly in the body.
ParserTreeFilter_values(names) == ParserTreeFilter_filter(names)

\* EnumInstance(cls, name), with the DictFilter its get_filters yields first:
\* name is the literal of the member's name, value the name in the tree.
EnumInstance(c, n) ==
    [kind |-> "EnumInstance", _cls |-> c, _name |-> n,
     dict |-> [name |-> Str(n.value), value |-> n]]

\* The dict of the DictFilter: a later name replaces an earlier one of the
\* same string_name.
EnumDict(c, names) ==
    LET values == ParserTreeFilter_values(names)
        last(v) == CHOOSE i \in 1..Len(values) :
                       /\ values[i].value = v
                       /\ \A j \in (i + 1)..Len(values) : values[j].value # v
    IN  {[string_name |-> v, member |-> EnumInstance(c, values[last(v)])] :
            v \in {values[i].value : i \in 1..Len(values)}}

\* get_metaclass_filters.wrapper with the dict of the filter it returns.
EnumMembers(c, names, metaclasses) ==
    IF get_metaclass_filters(c, metaclasses) # <<>>
    THEN [kind |-> "DictFilter", dict |-> EnumDict(c, names)]
    ELSE [kind |-> "unprocessed", dict |-> {}]

CallMetaclassFilters(c, names, metaclasses) ==
    /\ Idle
    /\ call' = [op |-> "get_metaclass_filters", cls |-> c, names |-> names,
                metaclasses |-> metaclasses]
    /\ result' = EnumMembers(c, names, metaclasses)
    /\ UNCHANGED classes

NextEnum ==
    \/ Idle /\ \E c \in UserClasses, names \in EnumBodies,
                   metaclasses \in MetaclassSets :
                   CallMetaclassFilters(c, names, metaclasses)
    \/ EndSession

SpecEnum == InitNoClasses /\ [][NextEnum]_vars

(***************************************************************************)
(* ClassMethodObject, ClassMethodGet and ClassMethodArguments              *)
(***************************************************************************)
ClassMethodObject(class_method_obj, function) ==
    [kind |-> "ClassMethodObject", _wrapped_value |-> class_method_obj,
     _function |-> function]

ClassMethodGet(get_method, klass, function) ==
    [kind |-> "ClassMethodGet", _wrapped_value |-> get_method, _class |-> klass,
     _function |-> function]

\* What self._wrapped_value.py__getattribute__('__get__') may find.
GetMethods == {<<>>, <<"__get__">>, <<"__get__", "__get__2">>}

\* LazyKnownValue(self._class) as a positional argument.
KnownArg(v) == [key |-> NoKey, sigs |-> <<>>, known |-> v]

ClassMethodArguments_unpackAppending(klass, arguments) ==
    arguments \o <<KnownArg(klass)>>

\* ClassMethodArguments.unpack
ClassMethodArguments_unpack(klass, arguments) ==
    <<KnownArg(klass)>> \o arguments

\* ClassMethodObject.py__get__, the found __get__ methods being given.
ClassMethodObject_py__get__(self, get_methods, obj, class_value) ==
    [i \in 1..Len(get_methods) |->
        ClassMethodGet(get_methods[i], class_value, self._function)]

\* ClassMethodGet.py__call__
ClassMethodGet_py__call__(self, arguments) ==
    Executed(<<self._function>>,
             ClassMethodArguments_unpack(self._class, arguments))

\* builtins_classmethod: one wrapper per classmethod object and function.
builtins_classmethod(functions, class_method_objects) ==
    {ClassMethodObject(o, f) : o \in class_method_objects, f \in functions}

\* Descriptor access on classmethod(function), then a call of every wrapper
\* the access gave.
CallClassMethod(function, get_methods, obj, class_value, arguments) ==
    /\ Idle
    /\ call' = [op |-> "classmethod", function |-> function,
                get_methods |-> get_methods, obj |-> obj,
                class_value |-> class_value, arguments |-> arguments]
    /\ result' =
           LET wrappers == ClassMethodObject_py__get__(
                   CHOOSE w \in builtins_classmethod({function}, {"classmethod"}) : TRUE,
                   get_methods, obj, class_value)
           IN  [kind |-> "calls",
                lst |-> [i \in 1..Len(wrappers) |->
                            ClassMethodGet_py__call__(wrappers[i], arguments)]]
    /\ UNCHANGED classes

NextClassMethod ==
    \/ Idle /\ \E function \in FunctionValues, get_methods \in GetMethods,
                   obj \in DescriptorInstances, class_value \in AllClasses,
                   arguments \in CallerArguments :
                   CallClassMethod(function, get_methods, obj, class_value,
                                   arguments)
    \/ EndSession

SpecClassMethod == InitNoClasses /\ [][NextClassMethod]_vars

(***************************************************************************)
(* get_statement_of_position                                               *)
(***************************************************************************)
MaxPos == 4
MaxNesting == 2
MaxChildren == 2

\* c.type in ('decorated', 'simple_stmt', 'suite')
WrapperTypes == {"decorated", "simple_stmt", "suite"}

\* The node types whose classes derive from tree.Flow and tree.ClassOrFunc,
\* one of each here.
FlowTypes == {"if_stmt"}
ClassOrFuncTypes == {"funcdef"}

\* A statement that is returned as it is.
StatementTypes == {"expr_stmt"}

TreeNode(type, start_pos, end_pos, children) ==
    [type |-> type, start_pos |-> start_pos, end_pos |-> end_pos,
     children |-> children]

\* The nodes spanning start_pos..end_pos that nest containers of type t at
\* most depth deep, and the lists of at most count children such a container
\* can have: the first child starts where its parent starts, the last ends
\* where its parent ends, and a child starts at or after the end of the one
\* before it, whitespace lying between them.
RECURSIVE NodesAt(_, _, _, _)
RECURSIVE ChildLists(_, _, _, _, _)
NodesAt(start_pos, end_pos, depth, t) ==
    {TreeNode(st, start_pos, end_pos, <<>>) : st \in StatementTypes}
    \cup (IF depth = 0 THEN {}
          ELSE {TreeNode(t, start_pos, end_pos, children) :
                    children \in ChildLists(start_pos, end_pos, depth - 1,
                                            MaxChildren, t)})

ChildLists(start_pos, end_pos, depth, count, t) ==
    IF count = 0 THEN {}
    ELSE {<<n>> : n \in NodesAt(start_pos, end_pos, depth, t)}
         \cup UNION {
             {<<n>> \o rest : n \in NodesAt(start_pos, cut[1], depth, t),
                              rest \in ChildLists(cut[2], end_pos, depth,
                                                  count - 1, t)}
             : cut \in {x \in (0..MaxPos) \X (0..MaxPos) :
                           start_pos < x[1] /\ x[1] <= x[2] /\ x[2] < end_pos}}

\* The spans and container types of the nodes handed to
\* get_statement_of_position, the containers of one tree being of one type.
RootShapes ==
    {y \in (0..MaxPos) \X (0..MaxPos)
               \X (WrapperTypes \cup FlowTypes \cup ClassOrFuncTypes) :
        y[1] < y[2]}

None == [kind |-> "None"]
Found(c) == [kind |-> "node", node |-> c]

\* c.start_pos <= pos <= c.end_pos
IsWithinBeforeEnd(c, pos) == c.start_pos <= pos /\ pos < c.end_pos

IsWithin(c, pos) == c.start_pos <= pos /\ pos <= c.end_pos

\* not (c.type not in (...) and not isinstance(c, (tree.Flow, tree.ClassOrFunc)))
IsDescendedInto(c) ==
    \/ c.type \in WrapperTypes
    \/ c.type \in FlowTypes \cup ClassOrFuncTypes

\* node.children raises AttributeError on a leaf.
HasChildrenAttribute(c) == c.type \notin {"keyword", "name", "newline"}

\* for c in node.children, and the `return None` after the loop.
RECURSIVE ChildLoop(_, _)
ChildLoop(children, pos) ==
    IF children = <<>> THEN None
    ELSE LET c == Head(children)
         IN  IF ~IsWithin(c, pos) THEN ChildLoop(Tail(children), pos)
             ELSE IF ~IsDescendedInto(c) THEN Found(c)
             ELSE IF HasChildrenAttribute(c) THEN ChildLoop(c.children, pos)
             ELSE ChildLoop(Tail(children), pos)

get_statement_of_position(node, pos) == ChildLoop(node.children, pos)

CallStatementOfPosition(node, pos) ==
    /\ Idle
    /\ call' = [op |-> "get_statement_of_position", node |-> node, pos |-> pos]
    /\ result' = get_statement_of_position(node, pos)
    /\ UNCHANGED classes

NextStatement ==
    \/ Idle /\ \E x \in RootShapes :
                   \E children \in ChildLists(x[1], x[2], MaxNesting,
                                             MaxChildren, x[3]),
                      pos \in 0..(MaxPos + 1) :
                       CallStatementOfPosition(
                           TreeNode("file_input", x[1], x[2], children), pos)
    \/ EndSession

SpecStatement == InitNoClasses /\ [][NextStatement]_vars

(***************************************************************************)
(* apply_py__get__, ClassName.infer and ClassFilter._convert_names         *)
(***************************************************************************)
\* A value whose class defines no py__get__.
PlainValue(n) == [kind |-> "plain", name |-> n]

\* What tree_name_to_values may resolve a name of a class body to.
ResolvedValues ==
    {PlainValue(n) : n \in {"a", "b"}}
    \cup {StaticMethodObject(f) : f \in FunctionValues}
    \cup {ClassMethodObject("classmethod", f) : f \in FunctionValues}

MaxResolved == 2

InferredLists == SeqsUpTo(ResolvedValues, MaxResolved)

\* try: method = value.py__get__ / except AttributeError
HasPyGet(value) == value.kind \in {"StaticMethodObject", "ClassMethodObject"}

\* method(instance, class_value), by the class of the value.
CallPyGetOf(value, get_methods, instance, class_value) ==
    IF value.kind = "StaticMethodObject"
    THEN py__get__(value, instance, class_value)
    ELSE Range(ClassMethodObject_py__get__(value, get_methods, instance,
                                           class_value))

apply_py__get__(value, get_methods, instance, class_value) ==
    IF ~HasPyGet(value) THEN {value}
    ELSE CallPyGetOf(value, get_methods, instance, class_value)

\* The py__get__ calls apply_py__get__ makes for value.
PyGetCalls(value, instance, class_value) ==
    IF ~HasPyGet(value) THEN {}
    ELSE {[self |-> value, instance |-> instance, class_value |-> class_value]}

\* ClassName(parent_context, tree_name, name_value, apply_decorators)
ClassName(context, apply_decorators) ==
    [parent_context |-> context, _apply_decorators |-> apply_decorators]

\* ClassFilter._convert_names, for one name.
_convert_names(value, is_instance) == ClassName(value, ~is_instance)

ClassName_inferAlwaysApplying(self, inferred, get_methods) ==
    [set |-> UNION {apply_py__get__(inferred[i], get_methods, NoInstance,
                                    self.parent_context)
                    : i \in 1..Len(inferred)},
     calls |-> UNION {PyGetCalls(inferred[i], NoInstance, self.parent_context)
                      : i \in 1..Len(inferred)}]

\* ClassName.infer, tree_name_to_values having given inferred; the values
\* yielded, as the ValueSet iterator_to_value_set makes of them, and the
\* py__get__ calls made.
ClassName_infer(self, inferred, get_methods) ==
    [set |-> UNION {IF self._apply_decorators
                    THEN apply_py__get__(inferred[i], get_methods, NoInstance,
                                         self.parent_context)
                    ELSE {inferred[i]}
                    : i \in 1..Len(inferred)},
     calls |-> UNION {IF self._apply_decorators
                      THEN PyGetCalls(inferred[i], NoInstance,
                                      self.parent_context)
                      ELSE {}
                      : i \in 1..Len(inferred)}]

\* A name of the filter of class_value is inferred.
CallClassNameInfer(class_value, is_instance, inferred, get_methods) ==
    /\ Idle
    /\ call' = [op |-> "ClassName.infer", class_value |-> class_value,
                is_instance |-> is_instance, inferred |-> inferred,
                get_methods |-> get_methods]
    /\ result' =
           LET r == ClassName_infer(_convert_names(class_value, is_instance),
                                    inferred, get_methods)
           IN  [kind |-> "valueset", set |-> r.set, calls |-> r.calls]
    /\ UNCHANGED classes

NextClassName ==
    \/ Idle /\ \E class_value \in UserClasses, is_instance \in BOOLEAN,
                   inferred \in InferredLists, get_methods \in GetMethods :
                   CallClassNameInfer(class_value, is_instance, inferred,
                                      get_methods)
    \/ EndSession

SpecClassName == InitNoClasses /\ [][NextClassName]_vars

(***************************************************************************)
(* builtins_getattr                                                        *)
(***************************************************************************)
MaxGetattrValues == 2

TargetObject(n) == [kind |-> "object", name |-> n]
TargetObjects == {TargetObject(n) : n \in {"x", "y", "z"}}

\* What the name argument may infer to.
NameValues == {Str(<<"a">>), Str(<<"b">>), NonStr, SequenceValue(<<>>)}

\* The value sets of the required parameters `object` and `name`, in
\* iteration order: the clinic hands over no empty one.
ObjectsSets ==
    {q \in SeqsUpTo(TargetObjects, MaxGetattrValues) :
        q # <<>> /\ NoDuplicates(q)}
NamesSets ==
    {q \in SeqsUpTo(NameValues, MaxGetattrValues) :
        q # <<>> /\ NoDuplicates(q)}

DefaultValue == [kind |-> "default"]

\* The optional `default`: nothing, or what it infers to.
DefaultsSets == {{}, {DefaultValue}}

AttributeValue(obj, name) == [kind |-> "attribute", of |-> obj, name |-> name]

\* obj.py__getattribute__(name): every object has the attribute a, y has b
\* as well.
py__getattribute__(obj, name) ==
    IF name = <<"a">> \/ (obj = TargetObject("y") /\ name = <<"b">>)
    THEN {AttributeValue(obj, name)}
    ELSE {}

Lookup(obj, name) == [obj |-> obj, name |-> name]

\* What builtins_getattr returns, and the lookups made on the way.
Looked(set, lookups) == [kind |-> "valueset", set |-> set, lookups |-> lookups]

\* for name in names, for one obj; found says whether the loop returned.
RECURSIVE GetattrNames(_, _)
GetattrNames(obj, names) ==
    IF names = <<>> THEN [found |-> FALSE]
    ELSE LET string == get_str_or_none(Head(names))
         IN  IF string.is_none THEN GetattrNames(obj, Tail(names))
             ELSE [found |-> TRUE,
                   looked |-> Looked(py__getattribute__(obj, string.text),
                                     <<Lookup(obj, string.text)>>)]

\* for obj in objects, and the `return NO_VALUES` after the loops.
RECURSIVE GetattrObjects(_, _)
GetattrObjects(objects, names) ==
    IF objects = <<>> THEN Looked({}, <<>>)
    ELSE LET inner == GetattrNames(Head(objects), names)
         IN  IF inner.found THEN inner.looked
             ELSE GetattrObjects(Tail(objects), names)

builtins_getattrOrDefault(objects, names, defaults) ==
    LET looked == GetattrObjects(objects, names)
    IN  Looked(looked.set \cup defaults, looked.lookups)

builtins_getattr(objects, names, defaults) == GetattrObjects(objects, names)

CallGetattr(objects, names, defaults) ==
    /\ Idle
    /\ call' = [op |-> "getattr", objects |-> objects, names |-> names,
                defaults |-> defaults]
    /\ result' = builtins_getattr(objects, names, defaults)
    /\ UNCHANGED classes

NextGetattr ==
    \/ Idle /\ \E objects \in ObjectsSets, names \in NamesSets,
                   defaults \in DefaultsSets :
                   CallGetattr(objects, names, defaults)
    \/ EndSession

SpecGetattr == InitNoClasses /\ [][NextGetattr]_vars

(***************************************************************************)
(* The class graph: c -> d when a base value of c is the class d.          *)
(***************************************************************************)
BaseClasses(cls, c) == Range(Flatten(py__bases__(cls, c))) \cap AllClasses

RECURSIVE ReachableFrom(_, _, _)
ReachableFrom(cls, frontier, seen) ==
    LET next == UNION {BaseClasses(cls, c) : c \in frontier} \ seen
    IN  IF next = {} THEN seen ELSE ReachableFrom(cls, next, seen \cup next)

\* The classes reachable from c by one or more base steps.
Ancestors(cls, c) ==
    ReachableFrom(cls, BaseClasses(cls, c), BaseClasses(cls, c))

Acyclic(cls) == \A c \in AllClasses : c \notin Ancestors(cls, c)

NoExplicitBases(cls, c) == get_super_arglist(cls, c) = <<>>

IsRootClass(c) == c = Object

(***************************************************************************)
(* C1: over an acyclic class graph py__mro__ yields the class itself       *)
(* first and no class twice; a class without explicit bases that is not    *)
(* the root class has exactly the MRO [C, object].                         *)
(***************************************************************************)
C1_MroSelfFirstNoDuplicates ==
    (call.op = "py__mro__" /\ Acyclic(classes)) =>
        /\ result.kind = "mro"
        /\ Len(result.lst) >= 1
        /\ result.lst[1] = call.cls
        /\ NoDuplicates(result.lst)
        /\ (NoExplicitBases(classes, call.cls) /\ ~IsRootClass(call.cls)) =>
               result.lst = <<call.cls, Object>>

\* A diamond through `object`: two bases that share an ancestor.
C1_Witness ==
    /\ call.op = "py__mro__"
    /\ Acyclic(classes)
    /\ call.cls = "A"
    /\ classes["A"] = <<Arg(NoKey, <<"B">>), Arg(NoKey, <<"O">>)>>
    /\ result.kind = "mro"
    /\ result.lst = <<"A", "B", Object, "O">>

(***************************************************************************)
(* C2: when a class is among its own ancestors, py__mro__ and py__bases__  *)
(* end without exhausting the call stack: the re-entered call yields       *)
(* nothing, and the class occurs at most once in its MRO.                  *)
(***************************************************************************)
Count(s, x) == Cardinality({i \in 1..Len(s) : s[i] = x})

C2_CyclicBasesTerminate ==
    (call.op \in {"py__mro__", "py__bases__"}
        /\ call.cls \in Ancestors(classes, call.cls)) =>
        /\ result.kind \in {"mro", "bases"}
        /\ result.kind = "mro" =>
               /\ Count(result.lst, call.cls) = 1
               /\ result.lst[1] = call.cls

C2_Witness ==
    /\ call.op = "py__mro__"
    /\ call.cls = "A"
    /\ classes["A"] = <<Arg(NoKey, <<"B">>)>>
    /\ classes["B"] = <<Arg(NoKey, <<"A">>)>>
    /\ result.kind = "mro"
    /\ result.lst = <<"A", "B">>

(***************************************************************************)
(* C8: isinstance() holds, for every candidate and every class argument,   *)
(* True when the class is in the MRO of the candidate's class and False    *)
(* when it is not; for a tuple argument, True when some element is in the  *)
(* MRO and False when none is.  One candidate against exactly one class of *)
(* its MRO gives {True}; against a tuple with no class of its MRO, {False}.*)
(***************************************************************************)
MroSetOf(o) == Range(Mro(classes, o.cls).lst)

C8_IsinstanceFollowsMro ==
    call.op = "isinstance" =>
        /\ \A o \in Range(call.objects) : \A t \in call.types :
               HasPyBases(o) =>
                   /\ t.kind = "class" =>
                          IF t.cls \in MroSetOf(o)
                          THEN TRUE \in result.set ELSE FALSE \in result.set
                   /\ t.kind = "tuple" =>
                          IF TupleClasses(t) \cap MroSetOf(o) # {}
                          THEN TRUE \in result.set ELSE FALSE \in result.set
        /\ \A o \in Instances : \A t \in call.types :
               (call.objects = <<o>> /\ call.types = {t} /\ HasPyBases(o)) =>
                   /\ (t.kind = "class" /\ t.cls \in MroSetOf(o)) =>
                          result.set = {TRUE}
                   /\ (t.kind = "tuple"
                          /\ TupleClasses(t) \cap MroSetOf(o) = {}) =>
                          result.set = {FALSE}

\* An instance of A(B) against the tuple (A, B) and against a tuple of
\* classes outside its MRO.
C8_Witness ==
    /\ call.op = "isinstance"
    /\ classes["A"] = <<Arg(NoKey, <<"O">>)>>
    /\ call.objects = <<Instance("A")>>
    /\ call.types = {TupleArg(<<<<"B">>, <<"B">>>>)}
    /\ result.set = {FALSE}

(***************************************************************************)
(* Visibility of the names of a class body, as the claims state it.        *)
(***************************************************************************)
FilterCall == call.op \in {"_access_possible", "_filter"}

\* The class-body names the call was about.
BodyNamesOfCall == {n \in Range(call.names) : n.direct}

Visible(n) == n \in Range(result.lst)

IsPrivateName(v) ==
    /\ Len(v) >= 2
    /\ v[1] = "_" /\ v[2] = "_"
    /\ ~(v[Len(v) - 1] = "_" /\ v[Len(v)] = "_")

\* The scopes enclosing the origin scope, the origin itself included.
EnclosingScopes(f) ==
    LET Up[n \in 0..NumScopes] ==
            IF n = NoScope THEN {} ELSE {n} \cup Up[f.parents[n]]
    IN  IF f.origin_scope = SelfValue THEN {SelfValue} ELSE Up[f.origin_scope]

OriginWithinClass(f) ==
    EnclosingScopes(f) \cap {f.parser_scope, SelfValue} # {}

IsAnnotated(n) ==
    n.definition.type = "expr_stmt" /\ n.definition.child1 = "annassign"

HasClassVarMarker(n) ==
    \E i \in 1..(Len(n.definition.code) - 1) :
        n.definition.code[i] = "Class" /\ n.definition.code[i + 1] = "Var"

\* The class-variable rule removes the name before mangling is looked at.
HiddenByClassVarRule(n) ==
    ~call.from_instance /\ IsAnnotated(n) /\ ~HasClassVarMarker(n)

(***************************************************************************)
(* C3 as stated: a private name (leading '__', no trailing '__') is        *)
(* visible exactly when the origin scope's chain of parents reaches the    *)
(* class; every other name is visible from every origin.                   *)
(***************************************************************************)
C3_Original ==
    FilterCall =>
        \A n \in BodyNamesOfCall :
            IF IsPrivateName(n.value)
            THEN Visible(n) <=> OriginWithinClass(call.filter)
            ELSE Visible(n)

(***************************************************************************)
(* C3 as amended: among the names that the class-variable rule does not    *)
(* remove (instance access, no annotated assignment, or an annotation      *)
(* containing 'ClassVar'), a private name is visible exactly when the      *)
(* origin scope's chain of parents reaches the class, and every other name *)
(* is visible from every origin.                                           *)
(***************************************************************************)
C3_NameMangling ==
    FilterCall =>
        \A n \in BodyNamesOfCall :
            ~HiddenByClassVarRule(n) =>
                IF IsPrivateName(n.value)
                THEN Visible(n) <=> OriginWithinClass(call.filter)
                ELSE Visible(n)

\* `__a` and `__a__` seen from the module: only `__a__` is left.
C3_Witness ==
    /\ call.op = "_filter"
    /\ call.names = <<TreeName(Secret, Assignment, TRUE),
                      TreeName(SecretDunder, Assignment, TRUE)>>
    /\ call.filter.parser_scope = 2
    /\ call.filter.origin_scope = 1
    /\ result.lst = <<TreeName(SecretDunder, Assignment, TRUE)>>

\* The same body seen from a scope nested two levels inside the class.
C3_WitnessInside ==
    /\ call.op = "_filter"
    /\ call.names = <<TreeName(Secret, Assignment, TRUE),
                      TreeName(SecretDunder, Assignment, TRUE)>>
    /\ call.filter.parser_scope = 2
    /\ call.filter.origin_scope = 4
    /\ call.filter.parents[4] = 3
    /\ call.filter.parents[3] = 2
    /\ result.lst = call.names

(***************************************************************************)
(* C4 as stated: for class-level access a name bound by an annotated       *)
(* assignment is excluded when its annotation lacks 'ClassVar' and         *)
(* included when it contains it; for instance access the annotation        *)
(* excludes nothing.                                                       *)
(***************************************************************************)
MangledAway(n) ==
    IsPrivateName(n.value) /\ ~OriginWithinClass(call.filter)

C4_Original ==
    FilterCall =>
        \A n \in {x \in BodyNamesOfCall : IsAnnotated(x)} :
            IF call.from_instance
            THEN Visible(n) <=> ~MangledAway(n)
            ELSE Visible(n) <=> HasClassVarMarker(n)

(***************************************************************************)
(* C4 as amended: for class-level access a name bound by an annotated      *)
(* assignment is excluded when its annotation lacks 'ClassVar'; when the   *)
(* annotation contains it, the name is included unless name mangling hides *)
(* it (a private name seen from outside the class); for instance access    *)
(* the annotation excludes nothing.                                        *)
(***************************************************************************)
C4_ClassVarRule ==
    FilterCall =>
        \A n \in {x \in BodyNamesOfCall : IsAnnotated(x)} :
            IF call.from_instance
            THEN Visible(n) <=> ~MangledAway(n)
            ELSE /\ ~HasClassVarMarker(n) => ~Visible(n)
                 /\ HasClassVarMarker(n) => (Visible(n) <=> ~MangledAway(n))

\* `a: int` and `a: ClassVar` in one body, class-level access.
C4_Witness ==
    /\ call.op = "_filter"
    /\ ~call.from_instance
    /\ call.names = <<TreeName(Plain, AnnAssign(<<"int">>), TRUE),
                      TreeName(Plain, AnnAssign(<<"Class", "Var">>), TRUE)>>
    /\ result.lst = <<TreeName(Plain, AnnAssign(<<"Class", "Var">>), TRUE)>>

(***************************************************************************)
(* C5: every signature of a partial object lists the wrapped callable's    *)
(* parameters without the first n (n = positional arguments bound after    *)
(* the function) and without those named by a bound keyword, in the        *)
(* original order.  (a, b, c) with (1,) and {c: 9} bound leaves (b,).      *)
(***************************************************************************)
\* The arguments bound after the function argument.
BoundAfterFunction(args) == 2..Len(args)

BoundPositionalCount(args) ==
    Cardinality({i \in BoundAfterFunction(args) : args[i].key = NoKey})

BoundKeywords(args) ==
    {args[i].key : i \in {j \in BoundAfterFunction(args) : args[j].key # NoKey}}

\* The positions of a parameter list that stay.
KeptPositions(ps, args) ==
    {j \in 1..Len(ps) :
        j > BoundPositionalCount(args) /\ ps[j] \notin BoundKeywords(args)}

\* reported lists exactly the kept positions of ps, in increasing order.
IsKeptInOrder(reported, ps, args) ==
    LET kept == KeptPositions(ps, args)
    IN  /\ Len(reported) = Cardinality(kept)
        /\ \A j \in kept :
               reported[Cardinality({x \in kept : x < j}) + 1] = ps[j]

C5_PartialSignature ==
    (call.op = "get_signatures"
        /\ call.arguments # <<>> /\ call.arguments[1].key = NoKey) =>
        LET sigs == call.arguments[1].sigs
        IN  /\ Len(result.lst) = Len(sigs)
            /\ \A i \in 1..Len(sigs) :
                   IsKeptInOrder(result.lst[i], sigs[i], call.arguments)
            /\ (/\ sigs = <<<<"a", "b", "c">>>>
                /\ Tail(call.arguments) = <<BoundArg(NoKey), BoundArg("c")>>)
                   => result.lst = <<<<"b">>>>

\* partial(f, 1, c=9) for f(a, b, c).
C5_Witness ==
    /\ call.op = "get_signatures"
    /\ call.arguments = <<FunctionArg(NoKey, <<<<"a", "b", "c">>>>),
                          BoundArg(NoKey), BoundArg("c")>>
    /\ result.lst = <<<<"b">>>>

(***************************************************************************)
(* C6: namedtuple with a literal type name and a literal string field spec *)
(* returns exactly one class whose fields are the spec split on commas and *)
(* whitespace, in order: one attribute per field, field i bound to index   *)
(* i, and a constructor that takes exactly those fields.  "Point" with     *)
(* "x y" has the attributes x and y and a two-argument constructor.        *)
(***************************************************************************)
IsSeparator(ch) == ch \in {" ", ","}

\* The maximal runs of characters of s that are no separators, as
\* (first, last) positions.
FieldRuns(s) ==
    {r \in (1..Len(s)) \X (1..Len(s)) :
        /\ r[1] <= r[2]
        /\ \A i \in r[1]..r[2] : ~IsSeparator(s[i])
        /\ r[1] = 1 \/ IsSeparator(s[r[1] - 1])
        /\ r[2] = Len(s) \/ IsSeparator(s[r[2] + 1])}

\* The fields of a spec, in order.
FieldsOfSpec(s) ==
    LET runs == FieldRuns(s)
        nth(k) == CHOOSE r \in runs :
                      Cardinality({q \in runs : q[1] < r[1]}) = k - 1
    IN  [k \in 1..Cardinality(runs) |-> SubSeq(s, nth(k)[1], nth(k)[2])]

NamedtupleOfLiterals ==
    /\ call.op = "namedtuple"
    /\ call.name_values = <<Str(Point)>>
    /\ call.fields_argument.given
    /\ Len(call.fields_argument.values) >= 1
    /\ call.fields_argument.values[1].kind = "str"

C6_NamedtupleFields ==
    NamedtupleOfLiterals =>
        LET fields == FieldsOfSpec(call.fields_argument.values[1].text)
        IN  /\ result.kind = "values"
            /\ Len(result.lst) = 1
            /\ result.lst[1].typename = Point
            /\ result.lst[1].field_defs =
                   [i \in 1..Len(fields) |-> [name |-> fields[i], index |-> i - 1]]
            /\ result.lst[1].init_params = fields

\* The part of C6 that holds: the attributes.
C6_NamedtupleAttributes ==
    NamedtupleOfLiterals =>
        LET fields == FieldsOfSpec(call.fields_argument.values[1].text)
        IN  /\ result.kind = "values"
            /\ Len(result.lst) = 1
            /\ result.lst[1].typename = Point
            /\ result.lst[1].field_defs =
                   [i \in 1..Len(fields) |-> [name |-> fields[i], index |-> i - 1]]

\* namedtuple("Point", "x y")
C6_Witness ==
    /\ NamedtupleOfLiterals
    /\ call.fields_argument.values = <<Str(<<"x", " ", "y">>)>>
    /\ result.kind = "values"
    /\ result.lst[1].field_defs =
           <<[name |-> <<"x">>, index |-> 0], [name |-> <<"y">>, index |-> 1]>>
    /\ result.lst[1].init_params = <<<<"x">>, <<"y">>>>

(***************************************************************************)
(* C7: _os_path_join returns a single literal, the arguments joined in     *)
(* order with the path separator, when every argument resolves to exactly  *)
(* one value and that value is a literal string; when some argument        *)
(* resolves to no value, to more than one value or to a non-string, it     *)
(* returns exactly the callback's result.                                  *)
(***************************************************************************)
PathArguments == CHOOSE sequence \in call.args_set : TRUE

IsSingleLiteral(vs) == \E t \in PathTexts : vs = {Str(t)}

LiteralText(vs) == (CHOOSE v \in vs : TRUE).text

AllSingleLiterals ==
    \A i \in 1..Len(PathArguments) : IsSingleLiteral(PathArguments[i])

C7_PathJoin ==
    call.op = "os.path.join" =>
        /\ AllSingleLiterals =>
               result = Returned(<<Str(join(call.sep,
                            [i \in 1..Len(PathArguments) |->
                                LiteralText(PathArguments[i])]))>>)
        /\ ~AllSingleLiterals => result = call.callback

\* join("a", "b") gives the literal "a/b"; join("a", <two values>) gives the
\* callback's result, which is no literal.
C7_Witness ==
    /\ call.op = "os.path.join"
    /\ call.sep = <<"/">>
    /\ call.args_set = {<<{Str(<<"a">>)}, {Str(<<"b">>)}>>}
    /\ result = Returned(<<Str(<<"a", "/", "b">>)>>)

C7_WitnessFallback ==
    /\ call.op = "os.path.join"
    /\ call.args_set = {<<{Str(<<"a">>)}, {Str(<<"a">>), Str(<<"b">>)}>>}
    /\ call.callback = Returned(<<[kind |-> "generic"]>>)
    /\ result = call.callback

(***************************************************************************)
(* C9: StaticMethodObject.py__get__ returns the set that holds exactly the *)
(* wrapped callable, whatever instance and class it is given.              *)
(***************************************************************************)
C9_StaticMethodGet ==
    call.op = "py__get__" => result.set = {call.self._wrapped_value}

\* Access through an instance: a binding descriptor would answer otherwise.
C9_Witness ==
    /\ call.op = "py__get__"
    /\ call.instance = Instance("A")
    /\ call.klass = "B"
    /\ call.self = StaticMethodObject([kind |-> "function", name |-> "f"])
    /\ result.set = {[kind |-> "function", name |-> "f"]}

(***************************************************************************)
(* C10: a failure raised inside a patch implementation is caught by the    *)
(* dispatch wrapper, which then returns the callback's result; no          *)
(* exception of a patch reaches the caller of execute.                     *)
(***************************************************************************)
\* The call goes to an entry of _implemented.
PatchInvoked ==
    /\ call.op = "execute"
    /\ call.value.has_name
    /\ is_module(call.value.parent_context)
    /\ ~call.value.bound.is_bound
    /\ <<module_name_of(call.value), call.value.obj_name>> \in _implemented

PatchRaised ==
    /\ PatchInvoked
    /\ Patch(module_name_of(call.value), call.value.obj_name, call.value,
             call.arguments, call.callback).kind = "raised"

C10_PatchFailureCaught ==
    /\ call.op = "execute" => result.kind # "raised"
    /\ PatchRaised => result = call.callback

\* collections.namedtuple("1P", "x y"): the generated module has no class
\* definition and next() raises StopIteration.
C10_PatchRaises ==
    /\ PatchRaised
    /\ call.value.obj_name = "namedtuple"
    /\ result = Raised("StopIteration")

(***************************************************************************)
(* C11: execute returns exactly the callback's result, and invokes no      *)
(* patch implementation, whenever no patch applies: the value has no name, *)
(* its parent context is neither the builtins module nor a module, it is a *)
(* bound method other than property's __get__, getter, setter or deleter   *)
(* in builtins, or (for a value that is no bound method) the pair (module  *)
(* name, object name) is not in _implemented.                              *)
(***************************************************************************)
IsPropertyMethod(value) ==
    /\ value.bound.is_bound
    /\ value.parent_context \in
           {[kind |-> "builtins_module", name |-> "builtins"],
            [kind |-> "module", name |-> "builtins"]}
    /\ value.bound.class_name = "property"
    /\ value.obj_name \in {"__get__", "getter", "setter", "deleter"}

NoPatchApplies(value) ==
    \/ ~value.has_name
    \/ value.parent_context.kind \notin {"builtins_module", "module"}
    \/ value.bound.is_bound /\ ~IsPropertyMethod(value)
    \/ /\ ~value.bound.is_bound
       /\ \A p \in _implemented :
              p # <<(IF value.parent_context.kind = "builtins_module"
                     THEN "builtins" ELSE value.parent_context.name),
                    value.obj_name>>

C11_NoPatchFallsBack ==
    (call.op = "execute" /\ NoPatchApplies(call.value)) =>
        /\ result = call.callback
        /\ call.ran = ToCallback

\* A bound method named like a patched builtin, called with a callback
\* result that no patch returns.
C11_Witness ==
    /\ call.op = "execute"
    /\ call.value.has_name
    /\ call.value.bound.is_bound
    /\ call.value.obj_name = "isinstance"
    /\ call.value.parent_context.kind = "builtins_module"
    /\ NoPatchApplies(call.value)
    /\ call.callback = Returned(<<[kind |-> "generic"]>>)
    /\ result = call.callback

\* An unpatched name of a patched module.
C11_WitnessNotInTable ==
    /\ call.op = "execute"
    /\ call.value.has_name
    /\ ~call.value.bound.is_bound
    /\ call.value.parent_context = [kind |-> "module", name |-> "collections"]
    /\ call.value.obj_name = "foo"
    /\ result = call.callback

(***************************************************************************)
(* C12: py__bases__ gives the positional arguments of the base list in     *)
(* declaration order, keyword arguments left out; when there is none, the  *)
(* root class (object of the builtins module) has no bases and every other *)
(* class has exactly one implicit base, the root class.                    *)
(***************************************************************************)
\* The positions of the positional arguments of a base list.
PositionalPositions(args) == {i \in 1..Len(args) : args[i].key = NoKey}

\* lst holds exactly the positional arguments of args, in their order.
IsPositionalsInOrder(lst, args) ==
    /\ Len(lst) = Cardinality(PositionalPositions(args))
    /\ \E f \in [1..Len(lst) -> PositionalPositions(args)] :
           /\ \A i, j \in 1..Len(lst) : i < j => f[i] < f[j]
           /\ \A i \in 1..Len(lst) : lst[i] = args[f[i]].vals

C12_Bases ==
    call.op = "py__bases__" =>
        LET args == IF call.cls \in DOMAIN classes THEN classes[call.cls] ELSE <<>>
        IN  IF PositionalPositions(args) # {}
            THEN IsPositionalsInOrder(result.lst, args)
            ELSE IF call.cls = Object THEN result.lst = <<>>
            ELSE result.lst = <<<<Object>>>>

\* class A(metaclass=A, B, Ext): the bases are B and Ext.
C12_Witness ==
    /\ call.op = "py__bases__"
    /\ call.cls = "A"
    /\ classes["A"] = <<Arg("metaclass", <<"A">>), Arg(NoKey, <<"B">>), Arg(NoKey, <<ExtClass>>)>>
    /\ result.lst = <<<<"B">>, <<ExtClass>>>>

\* The user's own class named object, with a metaclass only: one implicit base.
C12_WitnessImplicit ==
    /\ call.op = "py__bases__"
    /\ call.cls = "O"
    /\ classes["O"] = <<Arg("metaclass", <<"A">>)>>
    /\ result.lst = <<<<Object>>>>

(***************************************************************************)
(* C13: get_metaclasses gives the inferred values of metaclass= that are   *)
(* classes when there is at least one; otherwise the metaclasses of the    *)
(* first base, in declaration order, whose own get_metaclasses is not      *)
(* empty; and nothing when there is no such base.                          *)
(***************************************************************************)
\* The base values of a class that are classes, in declaration order.
BaseClassSeq(cls, c) ==
    SelectSeq(Flatten(py__bases__(cls, c)), LAMBDA v : v \in AllClasses)

C13_Metaclasses ==
    call.op = "get_metaclasses" =>
        LET explicit == {v \in MetaclassArguments(classes, call.cls) : v \in AllClasses}
            bases == BaseClassSeq(classes, call.cls)
            own(i) == Metaclasses(classes, bases[i])
            firsts == {i \in 1..Len(bases) :
                          own(i) # {} /\ \A j \in 1..(i - 1) : own(j) = {}}
        IN  IF explicit # {} THEN result.set = explicit
            ELSE IF firsts # {} THEN \A i \in firsts : result.set = own(i)
            ELSE result.set = {}

\* class A(B, O) with B and O of metaclasses A and EnumMeta: A has B's.
C13_Witness ==
    /\ call.op = "get_metaclasses"
    /\ call.cls = "A"
    /\ classes["A"] = <<Arg(NoKey, <<"B", "O">>)>>
    /\ classes["B"] = <<Arg("metaclass", <<NonClass, "A">>)>>
    /\ classes["O"] = <<Arg("metaclass", <<EnumMeta>>)>>
    /\ result.set = {"A"}

(***************************************************************************)
(* C14: get_filters yields first the filters the metaclasses contribute    *)
(* (only for a class that has metaclasses), then the single lexical-scope  *)
(* filter when search_global and otherwise the filters of the MRO entries  *)
(* in MRO order (a compiled class giving its own), and last, whenever      *)
(* is_instance is false, exactly one filter of an instance of builtin      *)
(* type, the third of that instance's filters.                             *)
(***************************************************************************)
IsMetaclassFilter(f) == f.kind = "DictFilter"

IsTypeInstanceFilter(f) == f.kind = "InstanceFilter"

\* The filters of the result before, and from, position k.
FiltersFrom(k) == SubSeq(result.lst, k, Len(result.lst))

\* The middle part: one lexical-scope filter, or the filters of the MRO.
IsMainPart(part) ==
    IF call.search_global
    THEN part = <<GlobalFilter(call.cls)>>
    ELSE LET mro == Mro(classes, call.cls).lst
         IN  /\ Len(part) = Len(mro)
             /\ \A i \in 1..Len(mro) :
                    /\ part[i].node_value = mro[i]
                    /\ part[i].is_instance = call.is_instance
                    /\ part[i].kind = IF mro[i] = ExtClass
                                      THEN "CompiledObjectFilter"
                                      ELSE "ClassFilter"

\* The result is a metaclass part, a main part and a last part, in this
\* order, the last part being the one more filter exactly when with_last.
FiltersInOrder(with_last) ==
    \E i, j \in 1..(Len(result.lst) + 1) :
        /\ i <= j
        /\ \A k \in 1..(i - 1) : IsMetaclassFilter(result.lst[k])
        /\ i > 1 => Metaclasses(classes, call.cls) # {}
        /\ IsMainPart(SubSeq(result.lst, i, j - 1))
        /\ FiltersFrom(j) = IF with_last THEN <<TypeInstanceFilters[3]>> ELSE <<>>

C14_Original ==
    call.op = "get_filters" => FiltersInOrder(~call.is_instance)

C14_FilterOrder ==
    call.op = "get_filters" =>
        FiltersInOrder(~call.is_instance /\ call.cls # Type)

\* class A(Ext, metaclass=EnumMeta), looked up on the class.
C14_Witness ==
    /\ call.op = "get_filters"
    /\ call.cls = "A"
    /\ ~call.search_global
    /\ ~call.is_instance
    /\ classes["A"] = <<Arg(NoKey, <<ExtClass>>), Arg("metaclass", <<EnumMeta>>)>>
    /\ Len(result.lst) = 5
    /\ result.lst[1].kind = "DictFilter"
    /\ result.lst[3].kind = "CompiledObjectFilter"
    /\ result.lst[5] = TypeInstanceFilters[3]

\* The filters of builtin type itself end without the filter of its instance.
C14_WitnessType ==
    /\ call.op = "get_filters"
    /\ call.cls = Type
    /\ ~call.is_instance
    /\ \A k \in 1..Len(result.lst) : ~IsTypeInstanceFilter(result.lst[k])

(***************************************************************************)
(* C15: the superclass proxy resolves attributes through the first         *)
(* declared base only: the filters it exposes come from the first base and *)
(* that base's MRO, never from a second or later declared base.            *)
(***************************************************************************)
\* The classes the first declared base of the calling instance's class
\* infers to, and those of all its declared bases, in declaration order.
FirstBaseClasses == execute_with_values(py__bases__(classes, call.cls)[1])

DeclaredBaseClasses ==
    execute_with_values(Flatten(py__bases__(classes, call.cls)))

\* How many filters the instances of the first k classes of ks have together.
RECURSIVE FilterCount(_, _)
FilterCount(ks, k) ==
    IF k = 0 THEN 0
    ELSE FilterCount(ks, k - 1) + Len(InstanceFilters(classes, ks[k]))

\* lst is the filters of an instance of ks[1], then those of ks[2], and so on.
IsFiltersOf(lst, ks) ==
    /\ Len(lst) = FilterCount(ks, Len(ks))
    /\ \A k \in 1..Len(ks) :
           SubSeq(lst, FilterCount(ks, k - 1) + 1, FilterCount(ks, k))
               = InstanceFilters(classes, ks[k])

ClauseOpeners ==
    {i \in 1..Len(call.flow_node) : call.flow_node[i].first_leaf \in _FLOW_KEYWORDS}

\* The clause that holds the position: the last one opening at or before it.
HoldingClause ==
    CHOOSE i \in ClauseOpeners :
        /\ call.flow_node[i].start_pos <= call.start_pos
        /\ \A j \in ClauseOpeners :
               call.flow_node[j].start_pos <= call.start_pos => j <= i

NodeWithinFlow ==
    /\ call.op = "get_flow_branch_keyword"
    /\ FlowStart < call.start_pos
    /\ call.start_pos <= call.flow_node[Len(call.flow_node)].end_pos

InLastBranch ==
    \A j \in ClauseOpeners : call.flow_node[j].start_pos <= call.start_pos

C16_BranchKeyword ==
    NodeWithinFlow =>
        result = [kind |-> "keyword",
                  value |-> call.flow_node[HoldingClause].first_leaf]

\* The part of C16 that holds: every branch but the last.
C16_BranchKeywordNotLast ==
    (NodeWithinFlow /\ ~InLastBranch) =>
        result = [kind |-> "keyword",
                  value |-> call.flow_node[HoldingClause].first_leaf]

\* A node in the else branch of if/else: the result is 0.
C16_LastBranchZero ==
    /\ NodeWithinFlow
    /\ call.kws = <<"if", "else">>
    /\ InLastBranch
    /\ result = Zero

(***************************************************************************)
(* C17: when one of the metaclasses of a class is EnumMeta of module enum, *)
(* the names visible on the class are exactly the direct assignment        *)
(* targets of its body, each resolving to a synthesized member that        *)
(* exposes name and value instead of the raw assigned value.               *)
(***************************************************************************)
HasEnumMetaclass ==
    /\ call.op = "get_metaclass_filters"
    /\ EnumMeta \in call.metaclasses

\* The names the body assigns to directly.
AssignmentTargets ==
    {n.value : n \in {m \in Range(call.names) :
                          m.direct /\ m.definition.type = "expr_stmt"}}

MemberNames == {e.string_name : e \in result.dict}

MembersExposeNameAndValue ==
    \A e \in result.dict :
        /\ e.member.kind = "EnumInstance"
        /\ DOMAIN e.member.dict = {"name", "value"}
        /\ e.member.dict.name = Str(e.string_name)

C17_EnumMembers ==
    HasEnumMetaclass =>
        /\ result.kind = "DictFilter"
        /\ MemberNames = AssignmentTargets
        /\ MembersExposeNameAndValue

\* The part of C17 that holds: every assignment target is a member, and
\* every member exposes name and value.
C17_EnumMembersInclude ==
    HasEnumMetaclass =>
        /\ result.kind = "DictFilter"
        /\ AssignmentTargets \subseteq MemberNames
        /\ MembersExposeNameAndValue

\* A body with an assignment and a method: the method is a member as well.
C17_MethodIsMember ==
    /\ HasEnumMetaclass
    /\ call.names = <<TreeName(Plain, Assignment, FALSE), TreeName(Method, FuncDef, TRUE)>>
    /\ MemberNames = {Method}

(***************************************************************************)
(* C18: calling a partial object delegates to the wrapped callable with    *)
(* the bound arguments, without the leading function argument, in their    *)
(* order, followed by the arguments of the call in their order; none is    *)
(* dropped, duplicated or reordered.                                       *)
(***************************************************************************)
\* partial() was given a function as its first positional argument.
HasProperFunction ==
    /\ call.arguments # <<>>
    /\ call.arguments[1].key = NoKey

C18_MergedArguments ==
    (call.op = "partial.py__call__" /\ HasProperFunction) =>
        LET bound == call.arguments
            new == call.call_arguments
            merged == result.arguments
        IN  /\ result.kind = "executed"
            /\ result.functions = bound[1].sigs
            /\ Len(merged) = (Len(bound) - 1) + Len(new)
            /\ \A i \in 1..(Len(bound) - 1) : merged[i] = bound[i + 1]
            /\ \A i \in 1..Len(new) : merged[Len(bound) - 1 + i] = new[i]

\* partial(f, 1, c=9)(2, 3): f is called with (1, c=9, 2, 3).
C18_Witness ==
    /\ call.op = "partial.py__call__"
    /\ HasProperFunction
    /\ Tail(call.arguments) = <<BoundArg(NoKey), BoundArg("c")>>
    /\ call.call_arguments = <<NewArg(NoKey, 1), NewArg(NoKey, 2)>>
    /\ result.kind = "executed"
    /\ result.arguments = <<BoundArg(NoKey), BoundArg("c"),
                            NewArg(NoKey, 1), NewArg(NoKey, 2)>>

(***************************************************************************)
(* C19: every call through a class-method wrapper got by descriptor access *)
(* executes the underlying function with the owning class as first         *)
(* positional argument, followed by the call's own arguments, unchanged    *)
(* and in order.                                                           *)
(***************************************************************************)
C19_ClassFirst ==
    call.op = "classmethod" =>
        /\ Len(result.lst) = Len(call.get_methods)
        /\ \A i \in 1..Len(result.lst) :
               LET executed == result.lst[i]
               IN  /\ executed.functions = <<call.function>>
                   /\ Len(executed.arguments) = Len(call.arguments) + 1
                   /\ executed.arguments[1].key = NoKey
                   /\ executed.arguments[1].known = call.class_value
                   /\ \A k \in 1..Len(call.arguments) :
                          executed.arguments[k + 1] = call.arguments[k]

\* B.f(1, c=1) for a class method f, reached through an instance of A.
C19_Witness ==
    /\ call.op = "classmethod"
    /\ call.get_methods = <<"__get__">>
    /\ call.obj = Instance("A")
    /\ call.class_value = "B"
    /\ call.arguments = <<NewArg(NoKey, 1), NewArg("c", 1)>>
    /\ Len(result.lst) = 1
    /\ result.lst[1].arguments = <<KnownArg("B"), NewArg(NoKey, 1), NewArg("c", 1)>>

(***************************************************************************)
(* C20: collections_namedtuple returns the empty result whenever the field *)
(* spec cannot be resolved to field names: the second argument is missing  *)
(* or infers to nothing, its value is neither a literal string nor a       *)
(* sequence, or it is a sequence whose elements are not literal strings.   *)
(***************************************************************************)
FieldValues == _follow_param(call.fields_argument)

NoFieldValues == FieldValues = <<>>

IsNeitherStringNorSequence ==
    /\ ~NoFieldValues
    /\ get_str_or_none(FieldValues[1]).is_none
    /\ FieldValues[1].kind # "sequence"

IsSequenceSpec ==
    /\ ~NoFieldValues
    /\ get_str_or_none(FieldValues[1]).is_none
    /\ FieldValues[1].kind = "sequence"

\* What the elements of the sequence infer to, in order.
ElementValues == Flatten(FieldValues[1].items)

IsSequenceOfNonStrings ==
    /\ IsSequenceSpec
    /\ ElementValues # <<>>
    /\ \A i \in 1..Len(ElementValues) : get_str_or_none(ElementValues[i]).is_none

\* The literal strings among the elements, in order.
LiteralElements ==
    LET strs == SelectSeq(ElementValues, LAMBDA v : ~get_str_or_none(v).is_none)
    IN  [i \in 1..Len(strs) |-> get_str_or_none(strs[i]).text]

C20_WitnessEmpty ==
    /\ call.op = "namedtuple"
    /\ call.fields_argument = NoArgument
    /\ result = Returned(NO_VALUES)

(***************************************************************************)
(* C21 as stated: when a declared base infers to several values, only the  *)
(* first inferred value's MRO is merged; a class reachable only through    *)
(* the second or a later inferred value of a base is not in the MRO.       *)
(***************************************************************************)
\* The classes among the first inferred values of the bases of c.
FirstValueClasses(cls, c) ==
    Range(FirstValues(py__bases__(cls, c))) \cap AllClasses

\* The classes reached from c by a path that starts at the first inferred
\* value of one of its bases.
ReachedThroughFirstValues(cls, c) ==
    ReachableFrom(cls, FirstValueClasses(cls, c), FirstValueClasses(cls, c))

\* The classes reached from c only through a second or later value.
ReachedThroughLaterValuesOnly(cls, c) ==
    Ancestors(cls, c) \ (ReachedThroughFirstValues(cls, c) \cup {c})

HasSeveralValues(cls, c) ==
    \E i \in 1..Len(py__bases__(cls, c)) : Len(py__bases__(cls, c)[i]) >= 2

C21_Original ==
    (call.op = "py__mro__" /\ Acyclic(classes) /\ result.kind = "mro") =>
        \A d \in ReachedThroughLaterValuesOnly(classes, call.cls) :
            d \notin Range(result.lst)

(***************************************************************************)
(* C21 as amended: when a declared base infers to several values, the MRO  *)
(* of every inferred value that is a class is merged, so that over an      *)
(* acyclic class graph the MRO holds the class and exactly the classes     *)
(* reachable through any inferred value of any base, those reached only    *)
(* through a second or later value included.                               *)
(***************************************************************************)
C21_EveryValueMerged ==
    (call.op = "py__mro__" /\ Acyclic(classes)) =>
        /\ result.kind = "mro"
        /\ Range(result.lst) = {call.cls} \cup Ancestors(classes, call.cls)
        /\ \A d \in ReachedThroughLaterValuesOnly(classes, call.cls) :
               d \in Range(result.lst)

\* class A(x) where x infers to B and to O: O comes after the MRO of B.
C21_Witness ==
    /\ call.op = "py__mro__"
    /\ call.cls = "A"
    /\ classes["A"] = <<Arg(NoKey, <<"B", "O">>)>>
    /\ HasSeveralValues(classes, "A")
    /\ "O" \in ReachedThroughLaterValuesOnly(classes, "A")
    /\ result.kind = "mro"
    /\ result.lst = <<"A", "B", Object, "O">>

(***************************************************************************)
(* C22: in py__mro__ a base whose inferred value has no py__mro__ is       *)
(* skipped with a logged warning and raises no error; the MRO entries of   *)
(* every other base, declared before or after it, are still produced in    *)
(* declaration order.                                                      *)
(***************************************************************************)
\* The inferred values of the bases of c, in declaration order.
DeclaredValues(cls, c) == Flatten(py__bases__(cls, c))

NonClassValues(cls, c) ==
    SelectSeq(DeclaredValues(cls, c), LAMBDA v : v \notin AllClasses)

HasNonClassBase(cls, c) == NonClassValues(cls, c) # <<>>

\* The base list of c without the values that are not classes, and without
\* the bases nothing is left of.
WithoutNonClasses(cls, c) ==
    LET kept == [i \in 1..Len(cls[c]) |->
                    Arg(cls[c][i].key,
                        SelectSeq(cls[c][i].vals, LAMBDA v : v \in AllClasses))]
    IN  [cls EXCEPT ![c] = SelectSeq(kept, LAMBDA a : a.vals # <<>>)]

C22_NonClassBaseSkipped ==
    (call.op = "py__mro__" /\ HasNonClassBase(classes, call.cls)) =>
        /\ result.kind = "mro"
        /\ result.warnings = NonClassValues(classes, call.cls)
        /\ \A i \in 1..Len(result.lst) : result.lst[i] \in AllClasses
        /\ IF \A i \in 1..Len(DeclaredValues(classes, call.cls)) :
                  DeclaredValues(classes, call.cls)[i] \notin AllClasses
           THEN result.lst = <<call.cls>>
           ELSE result.lst =
                    Mro(WithoutNonClasses(classes, call.cls), call.cls).lst

\* class A(1, B): the MRO of B follows the skipped base.
C22_Witness ==
    /\ call.op = "py__mro__"
    /\ call.cls = "A"
    /\ classes["A"] = <<Arg(NoKey, <<NonClass>>), Arg(NoKey, <<"B">>)>>
    /\ result.kind = "mro"
    /\ result.warnings = <<NonClass>>
    /\ result.lst = <<"A", "B", Object>>

\* class A(B, 1): the skipped base comes last.
C22_WitnessAfter ==
    /\ call.op = "py__mro__"
    /\ call.cls = "A"
    /\ classes["A"] = <<Arg(NoKey, <<"B">>), Arg(NoKey, <<NonClass>>)>>
    /\ result.kind = "mro"
    /\ result.warnings = <<NonClass>>
    /\ result.lst = <<"A", "B", Object>>

(***************************************************************************)
(* C23: get_statement_of_position(node, pos) returns the innermost child   *)
(* statement whose span contains pos and that is not a suite, simple_stmt, *)
(* decorated wrapper, flow statement or class/function definition,         *)
(* descending through those container kinds; it returns None only if no    *)
(* such statement contains pos, also when pos lies on the shared boundary  *)
(* between the end of one child and the start of the next.                 *)
(***************************************************************************)
IsContainerKind(c) ==
    c.type \in {"suite", "simple_stmt", "decorated", "if_stmt", "funcdef"}

SpanContains(c, pos) == c.start_pos <= pos /\ pos <= c.end_pos

\* The statements under node that contain pos, are not containers and have
\* only containers containing pos between node and themselves.
RECURSIVE StatementsAt(_, _)
StatementsAt(node, pos) ==
    UNION {IF ~SpanContains(node.children[i], pos) THEN {}
           ELSE IF IsContainerKind(node.children[i])
                THEN StatementsAt(node.children[i], pos)
           ELSE {node.children[i]}
           : i \in 1..Len(node.children)}

\* pos is the end of one child of node and the start of the next.
IsSharedBoundary(node, pos) ==
    \E i \in 1..(Len(node.children) - 1) :
        node.children[i].end_pos = pos /\ node.children[i + 1].start_pos = pos

C23_StatementOfPosition ==
    call.op = "get_statement_of_position" =>
        /\ result.kind = "node" =>
               /\ result.node \in StatementsAt(call.node, call.pos)
               /\ ~IsContainerKind(result.node)
               /\ SpanContains(result.node, call.pos)
        /\ result.kind = "None" <=> StatementsAt(call.node, call.pos) = {}
        /\ IsSharedBoundary(call.node, call.pos) => result.kind = "node"

\* pos 2 is where a simple_stmt ends and the next statement starts: the
\* statement found is the last one inside the simple_stmt.
C23_Witness ==
    /\ call.op = "get_statement_of_position"
    /\ call.pos = 2
    /\ call.node.children =
           <<TreeNode("simple_stmt", 0, 2,
                 <<TreeNode("expr_stmt", 0, 1, <<>>),
                   TreeNode("expr_stmt", 1, 2, <<>>)>>),
             TreeNode("expr_stmt", 2, 3, <<>>)>>
    /\ IsSharedBoundary(call.node, call.pos)
    /\ result = Found(TreeNode("expr_stmt", 1, 2, <<>>))

\* pos 2 lies between the two statements of a suite: nothing is found.
C23_WitnessNone ==
    /\ call.op = "get_statement_of_position"
    /\ call.pos = 2
    /\ call.node.children =
           <<TreeNode("suite", 0, 4,
                 <<TreeNode("expr_stmt", 0, 1, <<>>),
                   TreeNode("expr_stmt", 3, 4, <<>>)>>)>>
    /\ result = None

(***************************************************************************)
(* C24: ClassName.infer: for class-level access (is_instance false) every  *)
(* resolved value that has a descriptor-get operation is replaced by the   *)
(* results of py__get__(None, class) and every value without one passes    *)
(* through unchanged; for instance-level access (is_instance true) no      *)
(* descriptor-get is applied and the resolved values are returned as they  *)
(* are.                                                                    *)
(***************************************************************************)
HasDescriptorGet(v) == v.kind # "plain"

\* What py__get__(None, class) gives for a descriptor of the model: the
\* wrapped function of a static method, one wrapper bound to the class per
\* __get__ of a class method.
DescriptorResults(v) ==
    IF v.kind = "StaticMethodObject" THEN {v._wrapped_value}
    ELSE {[kind |-> "ClassMethodGet", _wrapped_value |-> call.get_methods[i],
           _class |-> call.class_value, _function |-> v._function]
          : i \in 1..Len(call.get_methods)}

C24_DescriptorGet ==
    call.op = "ClassName.infer" =>
        LET resolved == Range(call.inferred)
            descriptors == {v \in resolved : HasDescriptorGet(v)}
        IN  IF call.is_instance
            THEN /\ result.set = resolved
                 /\ result.calls = {}
            ELSE /\ result.set =
                        (resolved \ descriptors)
                        \cup UNION {DescriptorResults(v) : v \in descriptors}
                 /\ descriptors \cap result.set = {}
                 /\ result.calls =
                        {[self |-> v, instance |-> NoInstance,
                          class_value |-> call.class_value] : v \in descriptors}

\* A plain value and a class method resolved on class A.
C24_Witness ==
    /\ call.op = "ClassName.infer"
    /\ ~call.is_instance
    /\ call.class_value = "A"
    /\ call.get_methods = <<"__get__">>
    /\ call.inferred = <<PlainValue("a"),
                         ClassMethodObject("classmethod",
                                           [kind |-> "function", name |-> "f"])>>
    /\ result.set = {PlainValue("a"),
                     ClassMethodGet("__get__", "A",
                                    [kind |-> "function", name |-> "f"])}

\* The same names resolved for instance access.
C24_WitnessInstance ==
    /\ call.op = "ClassName.infer"
    /\ call.is_instance
    /\ call.inferred = <<PlainValue("a"),
                         StaticMethodObject([kind |-> "function", name |-> "f"])>>
    /\ result.set = Range(call.inferred)
    /\ result.calls = {}

(***************************************************************************)
(* C25: _os_path_join called with no path arguments at all does not fall   *)
(* back to the generic callback: the loop over the empty argument sequence *)
(* completes without a break, and the result is a single literal value     *)
(* equal to the empty string.                                              *)
(***************************************************************************)
NoPathArguments == call.args_set = {<<>>}

EmptyStringLiteral == [kind |-> "str", text |-> <<>>]

C25_NoArgumentsEmptyString ==
    (call.op = "os.path.join" /\ NoPathArguments) =>
        /\ result.kind = "values"
        /\ result.lst = <<EmptyStringLiteral>>
        /\ result # call.callback

\* os.path.join() where the generic inference would have given a value.
C25_Witness ==
    /\ call.op = "os.path.join"
    /\ NoPathArguments
    /\ call.callback = Returned(<<[kind |-> "generic"]>>)
    /\ result = Returned(<<EmptyStringLiteral>>)

(***************************************************************************)
(* C26: builtins_getattr returns the attribute lookup of a single (object, *)
(* name) pair only: the first target object in iteration order combined    *)
(* with the first name value that resolves to a literal string; further    *)
(* target objects and further names are never looked up, the default       *)
(* argument is never part of the result, and when no name value resolves   *)
(* to a literal string the result is empty.                                *)
(***************************************************************************)
LiteralNamePositions ==
    {i \in 1..Len(call.names) : call.names[i].kind = "str"}

FirstLiteralName ==
    call.names[CHOOSE i \in LiteralNamePositions :
                   \A j \in LiteralNamePositions : i <= j].text

C26_GetattrSinglePair ==
    call.op = "getattr" =>
        /\ result.set \cap call.defaults = {}
        /\ IF LiteralNamePositions = {}
           THEN result.set = {} /\ result.lookups = <<>>
           ELSE /\ result.lookups = <<[obj |-> call.objects[1],
                                       name |-> FirstLiteralName]>>
                /\ \A v \in result.set :
                       v.of = call.objects[1] /\ v.name = FirstLiteralName
                /\ result.set =
                       py__getattribute__(call.objects[1], FirstLiteralName)

\* getattr(<x or y>, <1 or "a">, default): only x.a is looked up.
C26_Witness ==
    /\ call.op = "getattr"
    /\ call.objects = <<TargetObject("x"), TargetObject("y")>>
    /\ call.names = <<NonStr, Str(<<"a">>)>>
    /\ call.defaults = {DefaultValue}
    /\ result.lookups = <<Lookup(TargetObject("x"), <<"a">>)>>
    /\ result.set = {AttributeValue(TargetObject("x"), <<"a">>)}

\* getattr(x, 1, default): no name is a literal string, the result is empty.
C26_WitnessNoName ==
    /\ call.op = "getattr"
    /\ call.objects = <<TargetObject("x")>>
    /\ call.names = <<NonStr>>
    /\ call.defaults = {DefaultValue}
    /\ result.set = {}

=============================================================================
